---------------------------- MODULE Spec2Model ----------------------------
(***************************************************************************)
(* libauto: the Bitmap bit vector, its AtomicCursor and the atomic bit     *)
(* primitives (Bitmap.h, Bitmap.cpp).                                      *)
(*                                                                         *)
(* A usword_t is modelled as the set of the shifts (0 .. bits_per_word-1)  *)
(* of its 1 bits, so that the bitwise operators are set operators and the  *)
(* shifts are translations that drop what leaves the word.  A usword_t*    *)
(* cursor is modelled as the index of the word it points to, counted from  *)
(* address(); cursors one before the first word and one past the last are  *)
(* -1 and the word count.                                                  *)
(***************************************************************************)
EXTENDS Integers, Sequences, FiniteSets, TLC

(***************************************************************************)
(* Bounds of the model.                                                    *)
(***************************************************************************)
\* the largest vector, in words, the sequential operations are applied to
NumWords == 6
\* the threads that run atomic operations on one vector
NumThreads == 2
\* how many atomic test calls the threads make, all together
MaxCalls == 3
\* how many times a cursor is asked again after it returned not_found
MaxNotFound == 1
\* how many free blocks the memory of the free list holds
NumBlocks == 3

(***************************************************************************)
(* Definitions.h (LP64).                                                   *)
(***************************************************************************)
bits_per_word_log2 == 6
bytes_per_word_log2 == 3
bits_per_byte_log2 == 3
bits_per_word == 64
bits_mask == bits_per_word - 1
\* sizeof(unsigned)
sizeof_unsigned == 4
\* (usword_t)-1, the all ones word read as a position
not_found == -1

WordBits == 0 .. (bits_per_word - 1)
all_ones == WordBits
all_zeros == {}

Pow2(k) == 2 ^ k

And(x, y) == x \cap y
Or(x, y) == x \cup y
Not(x) == WordBits \ x
\* x << k and x >> k for 0 <= k < bits_per_word
Shl(x, k) == {i + k : i \in x} \cap WordBits
Shr(x, k) == {i - k : i \in x} \cap WordBits

SetMax(S) == CHOOSE m \in S : \A o \in S : o <= m
SetMin(S) == CHOOSE m \in S : \A o \in S : m <= o

\* the word of the number v, 0 <= v < 2^31
WordOf(v) == {i \in 0 .. 30 : (v \div Pow2(i)) % 2 = 1}

\* x + y + c modulo 2^bits_per_word (c is the carry in): the carry into
\* shift i is generated at a lower shift where both words hold a 1, or is the
\* carry in, and is handed up through shifts where at least one holds a 1
AddC(x, y, c) ==
    LET carry(i) ==
            \/ c = 1 /\ \A k \in 0 .. (i - 1) : k \in x \cup y
            \/ \E j \in x \cap y :
                   j < i /\ \A k \in (j + 1) .. (i - 1) : k \in x \cup y
    IN  {i \in WordBits : ((i \in x) # (i \in y)) # carry(i)}

Add(x, y) == AddC(x, y, 0)
\* x - y modulo 2^bits_per_word
Sub(x, y) == AddC(x, Not(y), 1)

RECURSIVE ToNat(_)
\* the number a word holds (used where the number is below 2^31)
ToNat(x) == IF x = {} THEN 0
            ELSE LET m == SetMax(x) IN Pow2(m) + ToNat(x \ {m})

\* mask: n one bits from the least significant bit, 0 < n <= bits_per_word
mask(n) == 0 .. (n - 1)
is_all_zeros(x) == x = {}
\* ilog2: the shift of the highest one bit of a nonzero word
ilog2(x) == SetMax(x)
\* count_trailing_zeros: the shift of the lowest one bit of a nonzero word
count_trailing_zeros(x) == IF x = {} THEN bits_per_word ELSE SetMin(x)
min(a, b) == IF a < b THEN a ELSE b
\* partition2(x, p): how many units of 2^p bits it takes to hold x
partition2(x, p) == (x + Pow2(p) - 1) \div Pow2(p)

(***************************************************************************)
(* State.                                                                  *)
(***************************************************************************)
VARIABLES
    size,       \* Range::size(): the bytes of the bitmap
    bits,       \* the words of the bitmap, by word index
    last,       \* the last sequential call: operation, arguments, result,
                \* and the words before it
    bits0,      \* the words of the bitmap before any thread ran
    pc,         \* per thread: where the thread is in its current call
    arg,        \* per thread: the current call, its operation and argument
    rmw,        \* per thread: mask, addr and old_value of the atomic_and /
                \* atomic_or loop it is in
    hist,       \* per thread: the atomic test calls it completed
    cur,        \* per thread: the fields of its AtomicCursor
    out,        \* per thread: what its next_set_bit calls returned
    head,       \* FreeList::_head, an address or NULL
    tail,       \* FreeList::_tail, an address or NULL
    mem         \* the words of the memory the free blocks lie in, by address

seqVars == <<last>>
thrVars == <<bits0, pc, arg, rmw, hist, cur, out>>
listVars == <<head, tail, mem>>
vars == <<size, bits, last, bits0, pc, arg, rmw, hist, cur, out, head, tail, mem>>

(***************************************************************************)
(* Bitmap: addressing.                                                     *)
(***************************************************************************)
index(bp) == bp \div Pow2(bits_per_word_log2)
shift(bp) == bp % (bits_mask + 1)
\* the byte displacement is (bp >> 3) & ~7; the cursor is that, in words
bp_cursor(bp) ==
    LET byte == bp \div Pow2(bits_per_word_log2 - bytes_per_word_log2)
    IN  (byte - (byte % Pow2(bytes_per_word_log2))) \div Pow2(bytes_per_word_log2)
cursor_bp(cursor) == (cursor * Pow2(bytes_per_word_log2)) * Pow2(bits_per_byte_log2)
end_cursor(sz) == sz \div Pow2(bytes_per_word_log2)
size_in_bits(sz) == sz * Pow2(bits_per_byte_log2)
bytes_needed(n) == partition2(n, bits_per_word_log2) * Pow2(bytes_per_word_log2)

bit(b, bp) == IF 0 \in Shr(b[bp_cursor(bp)], shift(bp)) THEN 1 ELSE 0

(***************************************************************************)
(* Bitmap: set_bits, clear_bits, bits_are_clear.                           *)
(***************************************************************************)
RECURSIVE FillWords(_, _, _, _)
\* for ( ; spill >= bits_per_word; spill -= bits_per_word) *cursor++ = w;
\* gives the words, the cursor and the spill the loop ends with
FillWords(b, cursor, spill, w) ==
    IF spill >= bits_per_word
    THEN FillWords([b EXCEPT ![cursor] = w], cursor + 1, spill - bits_per_word, w)
    ELSE [b |-> b, cursor |-> cursor, spill |-> spill]

\* set_bits_large that forgets to shift the mask of the first word
set_bits_large_unshifted(b, bp, n) ==
    LET cursor == bp_cursor(bp)
        sh == shift(bp)
        b1 == [b EXCEPT ![cursor] = Or(@, all_ones)]
        f == FillWords(b1, cursor + 1, sh + n - bits_per_word, all_ones)
    IN  IF f.spill > 0
        THEN [f.b EXCEPT ![f.cursor] = Or(@, Shr(all_ones, bits_per_word - f.spill))]
        ELSE f.b

set_bits_large(b, bp, n) ==
    LET cursor == bp_cursor(bp)
        sh == shift(bp)
        b1 == [b EXCEPT ![cursor] = Or(@, Shl(all_ones, sh))]
        f == FillWords(b1, cursor + 1, sh + n - bits_per_word, all_ones)
    IN  IF f.spill > 0
        THEN [f.b EXCEPT ![f.cursor] = Or(@, Shr(all_ones, bits_per_word - f.spill))]
        ELSE f.b

set_bits(b, bp, n) ==
    LET sh == shift(bp)
    IN  IF sh + n > bits_per_word
        THEN set_bits_large(b, bp, n)
        ELSE [b EXCEPT ![bp_cursor(bp)] = Or(@, Shl(mask(n), sh))]

clear_bits_large(b, bp, n) ==
    LET cursor == bp_cursor(bp)
        sh == shift(bp)
        b1 == [b EXCEPT ![cursor] = And(@, Not(Shl(all_ones, sh)))]
        f == FillWords(b1, cursor + 1, sh + n - bits_per_word, all_zeros)
    IN  IF f.spill > 0
        THEN [f.b EXCEPT ![f.cursor] =
                  And(@, Not(Shr(all_ones, bits_per_word - f.spill)))]
        ELSE f.b

clear_bits(b, bp, n) ==
    LET sh == shift(bp)
    IN  IF sh + n > bits_per_word
        THEN clear_bits_large(b, bp, n)
        ELSE [b EXCEPT ![bp_cursor(bp)] = And(@, Not(Shl(mask(n), sh)))]

RECURSIVE CheckWords(_, _, _)
\* for ( ; spill >= bits_per_word; spill -= bits_per_word) if (*cursor++) return false;
\* gives whether the loop ran to its end, and the cursor and the spill then
CheckWords(b, cursor, spill) ==
    IF spill >= bits_per_word
    THEN IF b[cursor] # all_zeros
         THEN [clear |-> FALSE, cursor |-> cursor + 1, spill |-> spill]
         ELSE CheckWords(b, cursor + 1, spill - bits_per_word)
    ELSE [clear |-> TRUE, cursor |-> cursor, spill |-> spill]

\* bits_are_clear_large that forgets to shift the mask of the first word
bits_are_clear_large_unshifted(b, bp, n) ==
    LET cursor == bp_cursor(bp)
        sh == shift(bp)
    IN  IF And(b[cursor], all_ones) # all_zeros THEN FALSE
        ELSE LET f == CheckWords(b, cursor + 1, sh + n - bits_per_word)
             IN  IF ~f.clear THEN FALSE
                 ELSE IF f.spill > 0
                 THEN And(b[f.cursor], Shr(all_ones, bits_per_word - f.spill)) = all_zeros
                 ELSE TRUE

bits_are_clear_large(b, bp, n) ==
    LET cursor == bp_cursor(bp)
        sh == shift(bp)
    IN  IF And(b[cursor], Shl(all_ones, sh)) # all_zeros THEN FALSE
        ELSE LET f == CheckWords(b, cursor + 1, sh + n - bits_per_word)
             IN  IF ~f.clear THEN FALSE
                 ELSE IF f.spill > 0
                 THEN And(b[f.cursor], Shr(all_ones, bits_per_word - f.spill)) = all_zeros
                 ELSE TRUE

bits_are_clear(b, bp, n) ==
    LET sh == shift(bp)
    IN  IF sh + n > bits_per_word
        THEN bits_are_clear_large(b, bp, n)
        ELSE And(b[bp_cursor(bp)], Shl(mask(n), sh)) = all_zeros

(***************************************************************************)
(* Bitmap: skip_all_zeros, skip_backward_all_zeros.                        *)
(*                                                                         *)
(* skip_all_zeros is a sequence of steps, each reading at most one word:   *)
(* s.phase says which loop the skip is in ("near": the four word prefetch  *)
(* loop, "rest": the one word loop, "done"), s.cursor is the cursor and    *)
(* s.w holds the words of the current prefetch read so far.                *)
(***************************************************************************)
SkipStart(cursor) == [phase |-> "near", cursor |-> cursor, w |-> <<>>]

\* one step of skip_all_zeros(cursor, end) over the words b
SkipStep(b, s, end) ==
    IF s.phase = "near"
    THEN IF ~(s.cursor < end - 4)
         THEN [s EXCEPT !.phase = "rest"]
         ELSE LET w == Append(s.w, b[s.cursor + Len(s.w)])
              IN  IF Len(w) < 4
                  THEN [s EXCEPT !.w = w]
                  ELSE IF ~is_all_zeros(w[1])
                       THEN [phase |-> "rest", cursor |-> s.cursor + 4 - 4, w |-> <<>>]
                       ELSE IF ~is_all_zeros(w[2])
                       THEN [phase |-> "rest", cursor |-> s.cursor + 4 - 3, w |-> <<>>]
                       ELSE IF ~is_all_zeros(w[3])
                       THEN [phase |-> "rest", cursor |-> s.cursor + 4 - 2, w |-> <<>>]
                       ELSE IF ~is_all_zeros(w[4])
                       THEN [phase |-> "rest", cursor |-> s.cursor + 4 - 1, w |-> <<>>]
                       ELSE [phase |-> "near", cursor |-> s.cursor + 4, w |-> <<>>]
    ELSE IF ~(s.cursor < end)
         THEN [s EXCEPT !.phase = "done"]
         ELSE IF ~is_all_zeros(b[s.cursor])
              THEN [s EXCEPT !.phase = "done"]
              ELSE [s EXCEPT !.cursor = s.cursor + 1]

RECURSIVE SkipRun(_, _, _)
SkipRun(b, s, end) ==
    IF s.phase = "done" THEN s.cursor ELSE SkipRun(b, SkipStep(b, s, end), end)

\* skip_all_zeros run to its end with no other thread writing the words
skip_all_zeros(b, cursor, end) == SkipRun(b, SkipStart(cursor), end)

RECURSIVE SkipBackRest(_, _, _)
\* while (first <= cursor) { word = *cursor--; if (!is_all_zeros(word)) { cursor++; break; } }
SkipBackRest(b, cursor, first) ==
    IF ~(first <= cursor) THEN cursor
    ELSE IF ~is_all_zeros(b[cursor]) THEN cursor
    ELSE SkipBackRest(b, cursor - 1, first)

RECURSIVE SkipBackNear(_, _, _)
\* while (near_first <= cursor) { four words read; cursor -= 4; backtrack and break }
SkipBackNear(b, cursor, first) ==
    IF ~(first + 3 <= cursor) THEN cursor
    ELSE IF ~is_all_zeros(b[cursor]) THEN cursor - 4 + 4
    ELSE IF ~is_all_zeros(b[cursor - 1]) THEN cursor - 4 + 3
    ELSE IF ~is_all_zeros(b[cursor - 2]) THEN cursor - 4 + 2
    ELSE IF ~is_all_zeros(b[cursor - 3]) THEN cursor - 4 + 1
    ELSE SkipBackNear(b, cursor - 4, first)

skip_backward_all_zeros(b, cursor, first) ==
    SkipBackRest(b, SkipBackNear(b, cursor, first), first)

(***************************************************************************)
(* Bitmap: count_set, previous_set, next_set.                              *)
(***************************************************************************)
fives == {i \in 0 .. 31 : i % 2 = 0}
threes == {i \in 0 .. 31 : i % 4 < 2}
nibbles == {i \in 0 .. 31 : i % 8 < 4}
bytes == {i \in 0 .. 31 : i % 16 < 8}
shorts == 0 .. 15

\* ((unsigned *)address())[j], little endian, widened to a usword_t
UnsignedAt(b, j) ==
    LET per == Pow2(bytes_per_word_log2) \div sizeof_unsigned
        off == (j % per) * (sizeof_unsigned * Pow2(bits_per_byte_log2))
    IN  Shr(b[j \div per], off) \cap (0 .. (sizeof_unsigned * Pow2(bits_per_byte_log2) - 1))

RECURSIVE CountInner(_, _, _, _)
\* for (j = i; j < lim; j++) { ... sum8 = sum8 + x; }
CountInner(b, j, lim, sum8) ==
    IF ~(j < lim) THEN sum8
    ELSE LET x0 == UnsignedAt(b, j)
             x1 == Sub(x0, And(Shr(x0, 1), fives))
             x2 == Add(And(x1, threes), And(Shr(x1, 2), threes))
             x3 == And(Add(x2, Shr(x2, 4)), nibbles)
         IN  CountInner(b, j + 1, lim, Add(sum8, x3))

RECURSIVE CountOuter(_, _, _, _)
\* for (i = 0; i < size; i += 31) { ... count += y; }
CountOuter(b, i, sz, count) ==
    IF ~(i < sz) THEN count
    ELSE LET lim == min(sz, i + 31)
             sum8 == CountInner(b, i, lim, all_zeros)
             y0 == Add(And(sum8, bytes), And(Shr(sum8, 8), bytes))
             y == Add(And(y0, shorts), Shr(y0, 16))
         IN  CountOuter(b, i + 31, sz, Add(count, y))

\* count_set of the bitmap of sz bytes whose words are b
count_set(b, sz) == ToNat(CountOuter(b, 0, sz \div Pow2(sizeof_unsigned), all_zeros))

previous_set(b, bp) ==
    LET cursor == bp_cursor(bp)
        first == bp_cursor(0)
        sh == shift(bp)
        word == IF sh # 0 THEN And(b[cursor], mask(sh)) ELSE all_zeros
    IN  IF is_all_zeros(word)
        THEN LET c2 == skip_backward_all_zeros(b, cursor - 1, first)
             IN  IF c2 >= first
                 THEN cursor_bp(c2) + ilog2(b[c2])
                 ELSE not_found
        ELSE cursor_bp(cursor) + ilog2(word)

\* next_set that does not eliminate the 1s before bp in the first word
next_set_unmasked(b, sz, bp) ==
    LET cursor == bp_cursor(bp)
        end == end_cursor(sz)
    IN  IF cursor >= end THEN not_found
        ELSE LET word == b[cursor]
                 c2 == IF is_all_zeros(word)
                       THEN skip_all_zeros(b, cursor + 1, end)
                       ELSE cursor
                 word2 == IF is_all_zeros(word)
                          THEN (IF c2 < end THEN b[c2] ELSE all_ones)
                          ELSE word
             IN  IF c2 < end
                 THEN cursor_bp(c2) + count_trailing_zeros(word2)
                 ELSE not_found

next_set(b, sz, bp) ==
    LET cursor == bp_cursor(bp)
        end == end_cursor(sz)
        sh == shift(bp)
    IN  IF cursor >= end THEN not_found
        ELSE LET word == IF sh # 0 THEN And(b[cursor], Not(mask(sh))) ELSE b[cursor]
                 c2 == IF is_all_zeros(word)
                       THEN skip_all_zeros(b, cursor + 1, end)
                       ELSE cursor
                 word2 == IF is_all_zeros(word)
                          THEN (IF c2 < end THEN b[c2] ELSE all_ones)
                          ELSE word
             IN  IF c2 < end
                 THEN cursor_bp(c2) + count_trailing_zeros(word2)
                 ELSE not_found

(***************************************************************************)
(* The sequential operations: one thread owns a vector and makes one call  *)
(* on it.  SpecBits makes the calls that write (set_bits, clear_bits),     *)
(* SpecQuery the calls that read (count_set, next_set, previous_set).      *)
(***************************************************************************)
\* the shifts inside a word the arguments and contents are drawn from
ProbeShifts == {0, 5, 63}

\* the bit counts a vector is constructed for: one word, one bit over a
\* word, one bit over two words, and the largest vector
BitCounts == {bits_per_word, bits_per_word + 1, 2 * bits_per_word + 1,
              bits_per_word * NumWords}

Positions(sz) == {p \in 0 .. (size_in_bits(sz) - 1) : shift(p) \in ProbeShifts}

Words(sz) == 0 .. (end_cursor(sz) - 1)

\* the contents a vector starts with: no bit set, every bit set, a pattern
\* that differs from word to word, and bits in the last word only
Contents(sz) ==
    { [w \in Words(sz) |-> all_zeros],
      [w \in Words(sz) |-> all_ones],
      [w \in Words(sz) |-> {i \in WordBits : (i + 2 * w) % 3 = 0}],
      [w \in Words(sz) |-> IF w = end_cursor(sz) - 1 THEN {0, 31, 32, 63}
                                                     ELSE all_zeros] }

\* the lengths of the runs: inside a word, up to a word boundary, a whole
\* word, over one boundary, over full interior words
RunLengths == {1, 59, 64, 70, 130, 200}

\* the runs [bp, bp + n) of a vector of sz bytes the calls are made with
Runs(sz) == {r \in Positions(sz) \X RunLengths : r[1] + r[2] <= size_in_bits(sz)}

NoCall == [op |-> "none", bp |-> 0, n |-> 0, res |-> 0, pre |-> <<>>]

\* no bit vector is used
NoBitmap == size = 0 /\ bits = <<>>

\* no free list is used
NoList == head = 0 /\ tail = 0 /\ mem = <<>>

Threads == 1 .. NumThreads

NoArg == [op |-> "none", bp |-> 0]
NoRmw == [mask |-> all_zeros, addr |-> 0, old_value |-> all_zeros]
NoCursor == [index |-> 0, offset |-> 0, max_index |-> 0, copied_bits |-> all_zeros,
             valid_bits |-> 0, skip |-> [phase |-> "done", cursor |-> 0, w |-> <<>>]]

\* no thread runs
NoThreads ==
    /\ bits0 = <<>>
    /\ pc = [t \in Threads |-> "off"]
    /\ arg = [t \in Threads |-> NoArg]
    /\ rmw = [t \in Threads |-> NoRmw]
    /\ hist = [t \in Threads |-> <<>>]
    /\ cur = [t \in Threads |-> NoCursor]
    /\ out = [t \in Threads |-> <<>>]

InitBits ==
    /\ \E n \in BitCounts : size = bytes_needed(n)
    /\ bits \in Contents(size)
    /\ last = NoCall
    /\ NoList
    /\ NoThreads

SetBits(bp, n) ==
    /\ last.op = "none"
    /\ bits' = set_bits(bits, bp, n)
    /\ last' = [op |-> "set_bits", bp |-> bp, n |-> n, res |-> 0, pre |-> bits]
    /\ UNCHANGED <<size, thrVars, listVars>>

ClearBits(bp, n) ==
    /\ last.op = "none"
    /\ bits' = clear_bits(bits, bp, n)
    /\ last' = [op |-> "clear_bits", bp |-> bp, n |-> n, res |-> 0, pre |-> bits]
    /\ UNCHANGED <<size, thrVars, listVars>>

NextBits ==
    \/ \E r \in Runs(size) : SetBits(r[1], r[2])
    \/ \E r \in Runs(size) : ClearBits(r[1], r[2])

SpecBits == InitBits /\ [][NextBits]_vars

\* the contents the queries are made on: those above, one bit alone at each
\* probed position, and the run of set_bits(5, 70)
QueryContents(sz) ==
    Contents(sz)
        \cup {set_bits([w \in Words(sz) |-> all_zeros], p, 1) : p \in Positions(sz)}
        \cup {set_bits([w \in Words(sz) |-> all_zeros], r[1], r[2]) :
                  r \in {q \in {<<5, 70>>} : q[1] + q[2] <= size_in_bits(sz)}}

InitQuery ==
    /\ \E n \in BitCounts : size = bytes_needed(n)
    /\ bits \in QueryContents(size)
    /\ last = NoCall
    /\ NoList
    /\ NoThreads

CountSet ==
    /\ last.op = "none"
    /\ last' = [op |-> "count_set", bp |-> 0, n |-> 0,
                res |-> count_set(bits, size), pre |-> bits]
    /\ UNCHANGED <<size, bits, thrVars, listVars>>

NextSet(bp) ==
    /\ last.op = "none"
    /\ last' = [op |-> "next_set", bp |-> bp, n |-> 0,
                res |-> next_set(bits, size, bp), pre |-> bits]
    /\ UNCHANGED <<size, bits, thrVars, listVars>>

PreviousSet(bp) ==
    /\ last.op = "none"
    /\ last' = [op |-> "previous_set", bp |-> bp, n |-> 0,
                res |-> previous_set(bits, bp), pre |-> bits]
    /\ UNCHANGED <<size, bits, thrVars, listVars>>

NextQuery ==
    \/ CountSet
    \/ \E bp \in Positions(size) : NextSet(bp)
    \/ \E bp \in Positions(size) : PreviousSet(bp)

SpecQuery == InitQuery /\ [][NextQuery]_vars

BitsAreClear(bp, n) ==
    /\ last.op = "none"
    /\ last' = [op |-> "bits_are_clear", bp |-> bp, n |-> n,
                res |-> bits_are_clear(bits, bp, n), pre |-> bits]
    /\ UNCHANGED <<size, bits, thrVars, listVars>>

NextClear == \E r \in Runs(size) : BitsAreClear(r[1], r[2])

SpecClear == InitQuery /\ [][NextClear]_vars

(***************************************************************************)
(* Reference readings of a vector, by linear scan.                         *)
(***************************************************************************)
\* the positions of the 1 bits of the words b
SetPositions(b) == UNION {{cursor_bp(w) + i : i \in b[w]} : w \in DOMAIN b}

(***************************************************************************)
(* The atomic primitives.  Each thread is a sequence of steps, one per     *)
(* access to the shared words: the plain read of test_set_bit_atomic /     *)
(* test_clear_bit_atomic, and the read and the compare and swap of the     *)
(* atomic_or_return_orig / atomic_and_return_orig loop.  What a call does  *)
(* between two accesses is part of the step of the access before it.       *)
(***************************************************************************)
\* a compare and swap that never swaps
atomic_compare_and_swap_word_never(old_value, new_value, word) ==
    [ok |-> FALSE, word |-> word]

\* a compare and swap that stores without comparing
atomic_compare_and_swap_word_blind(old_value, new_value, word) ==
    [ok |-> TRUE, word |-> new_value]

\* atomic_compare_and_swap_word on a word that holds `word`: whether it
\* swapped, and what the word holds afterwards
atomic_compare_and_swap_word(old_value, new_value, word) ==
    IF word = old_value THEN [ok |-> TRUE, word |-> new_value]
                        ELSE [ok |-> FALSE, word |-> word]

\* 1L << shift(bp)
BitOf(bp) == Shl({0}, shift(bp))

\* the calls made so far, completed or not
Calls == LET n[t \in 0 .. NumThreads] ==
                 IF t = 0 THEN 0
                 ELSE n[t - 1] + Len(hist[t]) + (IF arg[t].op = "none" THEN 0 ELSE 1)
         IN  n[NumThreads]

\* the bit positions the atomic test calls are made on: two bits of one word
TargetBPs == {5, 63}
\* a bit no call is made on, set from the start
BackgroundBP == 7

InitAtomic ==
    /\ size = bytes_needed(2 * bits_per_word)
    /\ \E S \in SUBSET TargetBPs :
           bits = set_bits([w \in Words(size) |->
                               {shift(p) : p \in {q \in S : index(q) = w}}],
                           BackgroundBP, 1)
    /\ bits0 = bits
    /\ last = NoCall
    /\ NoList
    /\ pc = [t \in Threads |-> "idle"]
    /\ arg = [t \in Threads |-> NoArg]
    /\ rmw = [t \in Threads |-> NoRmw]
    /\ hist = [t \in Threads |-> <<>>]
    /\ cur = [t \in Threads |-> NoCursor]
    /\ out = [t \in Threads |-> <<>>]

\* the call of thread t returns res: `old` is the word the result was
\* computed from, `did` whether this call's compare and swap changed the
\* word; before and after are the bit in the vector around this step
Completed(t, op, bp, res, did) ==
    [op |-> op, bp |-> bp, res |-> res, did |-> did,
     before |-> bit(bits, bp), after |-> bit(bits', bp)]

\* test_set_bit_atomic(bp), up to its plain read and what follows it
TestSetBitAtomic(t, bp) ==
    /\ pc[t] = "idle"
    /\ UNCHANGED <<size, bits, bits0, cur, out, seqVars, listVars>>
    /\ Calls < MaxCalls
    /\ LET cursor == bp_cursor(bp)
           old == bits[cursor]
       IN  IF And(old, BitOf(bp)) = all_zeros
           THEN /\ pc' = [pc EXCEPT ![t] = "or_read"]
                /\ arg' = [arg EXCEPT ![t] = [op |-> "test_set", bp |-> bp]]
                /\ rmw' = [rmw EXCEPT ![t] = [mask |-> BitOf(bp), addr |-> cursor,
                                              old_value |-> all_zeros]]
                /\ UNCHANGED hist
           ELSE /\ hist' = [hist EXCEPT ![t] =
                       Append(@, Completed(t, "test_set", bp,
                                           And(old, BitOf(bp)) # all_zeros, FALSE))]
                /\ UNCHANGED <<pc, arg, rmw>>

\* test_clear_bit_atomic(bp), up to its plain read and what follows it
TestClearBitAtomic(t, bp) ==
    /\ pc[t] = "idle"
    /\ UNCHANGED <<size, bits, bits0, cur, out, seqVars, listVars>>
    /\ Calls < MaxCalls
    /\ LET cursor == bp_cursor(bp)
           old == bits[cursor]
       IN  IF And(old, BitOf(bp)) # all_zeros
           THEN /\ pc' = [pc EXCEPT ![t] = "and_read"]
                /\ arg' = [arg EXCEPT ![t] = [op |-> "test_clear", bp |-> bp]]
                /\ rmw' = [rmw EXCEPT ![t] = [mask |-> Not(BitOf(bp)), addr |-> cursor,
                                              old_value |-> all_zeros]]
                /\ UNCHANGED hist
           ELSE /\ hist' = [hist EXCEPT ![t] =
                       Append(@, Completed(t, "test_clear", bp,
                                           And(old, BitOf(bp)) # all_zeros, FALSE))]
                /\ UNCHANGED <<pc, arg, rmw>>

\* atomic_or_return_orig: old_value = *addr
OrRead(t) ==
    /\ pc[t] = "or_read"
    /\ rmw' = [rmw EXCEPT ![t].old_value = bits[rmw[t].addr]]
    /\ pc' = [pc EXCEPT ![t] = "or_cas"]
    /\ UNCHANGED <<size, bits, bits0, arg, hist, cur, out, seqVars, listVars>>

\* atomic_or_return_orig: the compare and swap; when it swaps,
\* test_set_bit_atomic returns (old & bit) != 0
OrCAS(t) ==
    /\ pc[t] = "or_cas"
    /\ LET r == atomic_compare_and_swap_word(rmw[t].old_value,
                    Or(rmw[t].old_value, rmw[t].mask), bits[rmw[t].addr])
       IN  /\ bits' = [bits EXCEPT ![rmw[t].addr] = r.word]
           /\ IF r.ok
              THEN /\ hist' = [hist EXCEPT ![t] =
                          Append(@, Completed(t, "test_set", arg[t].bp,
                                     And(rmw[t].old_value, BitOf(arg[t].bp)) # all_zeros,
                                     r.word # bits[rmw[t].addr]))]
                   /\ pc' = [pc EXCEPT ![t] = "idle"]
                   /\ arg' = [arg EXCEPT ![t] = NoArg]
                   /\ rmw' = [rmw EXCEPT ![t] = NoRmw]
              ELSE /\ pc' = [pc EXCEPT ![t] = "or_read"]
                   /\ UNCHANGED <<hist, arg, rmw>>
    /\ UNCHANGED <<size, bits0, cur, out, seqVars, listVars>>

\* atomic_and_return_orig: old_value = *addr
AndRead(t) ==
    /\ pc[t] = "and_read"
    /\ rmw' = [rmw EXCEPT ![t].old_value = bits[rmw[t].addr]]
    /\ pc' = [pc EXCEPT ![t] = "and_cas"]
    /\ UNCHANGED <<size, bits, bits0, arg, hist, cur, out, seqVars, listVars>>

\* atomic_and_return_orig called by test_clear_bit_atomic: the compare and
\* swap; when it swaps, test_clear_bit_atomic returns (old & bit) != 0
AndCAS(t) ==
    /\ pc[t] = "and_cas"
    /\ arg[t].op = "test_clear"
    /\ LET r == atomic_compare_and_swap_word(rmw[t].old_value,
                    And(rmw[t].old_value, rmw[t].mask), bits[rmw[t].addr])
       IN  /\ bits' = [bits EXCEPT ![rmw[t].addr] = r.word]
           /\ IF r.ok
              THEN /\ hist' = [hist EXCEPT ![t] =
                          Append(@, Completed(t, "test_clear", arg[t].bp,
                                     And(rmw[t].old_value, BitOf(arg[t].bp)) # all_zeros,
                                     r.word # bits[rmw[t].addr]))]
                   /\ pc' = [pc EXCEPT ![t] = "idle"]
                   /\ arg' = [arg EXCEPT ![t] = NoArg]
                   /\ rmw' = [rmw EXCEPT ![t] = NoRmw]
              ELSE /\ pc' = [pc EXCEPT ![t] = "and_read"]
                   /\ UNCHANGED <<hist, arg, rmw>>
    /\ UNCHANGED <<size, bits0, cur, out, seqVars, listVars>>

NextAtomic ==
    \/ \E t \in Threads, bp \in TargetBPs : TestSetBitAtomic(t, bp)
    \/ \E t \in Threads, bp \in TargetBPs : TestClearBitAtomic(t, bp)
    \/ \E t \in Threads : OrRead(t)
    \/ \E t \in Threads : OrCAS(t)
    \/ \E t \in Threads : AndRead(t)
    \/ \E t \in Threads : AndCAS(t)

SpecAtomic == InitAtomic /\ [][NextAtomic]_vars

(***************************************************************************)
(* AtomicCursor.  A thread constructs one cursor and calls next_set_bit on *)
(* it.  As above each step holds one access to the shared words: a word    *)
(* read of skip_all_zeros, or the read or the compare and swap of          *)
(* atomic_and_return_orig inside fetch_clear_bits_atomic.                  *)
(***************************************************************************)
\* fetch_clear_bits_atomic that takes the rest of the word whatever max is
FetchPlan_to_boundary(bp, max) ==
    LET result_shift == bp % Pow2(bits_per_word_log2)
        count == bits_per_word - result_shift
    IN  [result_shift |-> result_shift,
         count |-> count,
         result_mask |-> mask(count),
         addr |-> bp_cursor(bp)]

\* fetch_clear_bits_atomic(bp, max, count) before its atomic operation:
\* the shift, the count, the mask of the result and the word it works on
FetchPlan(bp, max) ==
    LET result_shift == bp % Pow2(bits_per_word_log2)
        count == min(bits_per_word - result_shift, max - bp)
    IN  [result_shift |-> result_shift,
         count |-> count,
         result_mask |-> mask(count),
         addr |-> bp_cursor(bp)]

\* a fetch that copies the bits and clears none
FetchAndMask_keeps(plan) == all_ones

\* the operand of atomic_and_return_orig: ~(result_mask << result_shift)
FetchAndMask(plan) == Not(Shl(plan.result_mask, plan.result_shift))

\* fetch_clear_bits_atomic after its atomic operation returned old_value
FetchResult(old_value, plan) ==
    And(Shr(old_value, plan.result_shift), plan.result_mask)

\* next_set_bit that returns the position in the vector, the offset not
\* subtracted
TakeBit_absolute(c) ==
    IF c.copied_bits # all_zeros
    THEN LET sh == count_trailing_zeros(c.copied_bits)
         IN  [result |-> c.index + sh,
              c |-> [c EXCEPT !.copied_bits = Shr(Shr(@, sh), 1),
                              !.index = @ + (sh + 1),
                              !.valid_bits = @ - (sh + 1)]]
    ELSE [result |-> not_found, c |-> [c EXCEPT !.index = c.max_index]]

\* next_set_bit that does not step over the bit it returns
TakeBit_stuck(c) ==
    IF c.copied_bits # all_zeros
    THEN LET sh == count_trailing_zeros(c.copied_bits)
         IN  [result |-> c.index + sh - c.offset,
              c |-> [c EXCEPT !.copied_bits = Shr(@, sh),
                              !.index = @ + sh,
                              !.valid_bits = @ - sh]]
    ELSE [result |-> not_found, c |-> [c EXCEPT !.index = c.max_index]]

\* next_set_bit that takes shift, not shift + 1, off _valid_bits
TakeBit_miscounts(c) ==
    IF c.copied_bits # all_zeros
    THEN LET sh == count_trailing_zeros(c.copied_bits)
         IN  [result |-> c.index + sh - c.offset,
              c |-> [c EXCEPT !.copied_bits = Shr(Shr(@, sh), 1),
                              !.index = @ + (sh + 1),
                              !.valid_bits = @ - sh]]
    ELSE [result |-> not_found, c |-> [c EXCEPT !.index = c.max_index]]

\* next_set_bit that, finding nothing, goes back to the start of its range
TakeBit_rewinds(c) ==
    IF c.copied_bits # all_zeros
    THEN LET sh == count_trailing_zeros(c.copied_bits)
         IN  [result |-> c.index + sh - c.offset,
              c |-> [c EXCEPT !.copied_bits = Shr(Shr(@, sh), 1),
                              !.index = @ + (sh + 1),
                              !.valid_bits = @ - (sh + 1)]]
    ELSE [result |-> not_found, c |-> [c EXCEPT !.index = c.offset, !.valid_bits = 0]]

\* the end of next_set_bit: the lowest cached bit is returned and stepped
\* over, or the cursor is done
TakeBit(c) ==
    IF c.copied_bits # all_zeros
    THEN LET sh == count_trailing_zeros(c.copied_bits)
         IN  [result |-> c.index + sh - c.offset,
              c |-> [c EXCEPT !.copied_bits = Shr(Shr(@, sh), 1),
                              !.index = @ + (sh + 1),
                              !.valid_bits = @ - (sh + 1)]]
    ELSE [result |-> not_found, c |-> [c EXCEPT !.index = c.max_index]]

\* how many times thread t was answered not_found
NotFounds(t) == Cardinality({i \in 1 .. Len(out[t]) : out[t][i] = not_found})

\* thread t starts fetch_clear_bits_atomic for the cursor fields c
StartFetch(t, c, op) ==
    LET plan == FetchPlan(c.index, c.max_index)
    IN  /\ cur' = [cur EXCEPT ![t] = [c EXCEPT !.valid_bits = plan.count]]
        /\ rmw' = [rmw EXCEPT ![t] = [mask |-> FetchAndMask(plan), addr |-> plan.addr,
                                      old_value |-> all_zeros]]
        /\ arg' = [arg EXCEPT ![t] = [op |-> op, bp |-> c.index]]
        /\ pc' = [pc EXCEPT ![t] = "and_read"]

\* next_set_bit of thread t returns, the cursor fields being c
ReturnBit(t, c) ==
    /\ cur' = [cur EXCEPT ![t] = TakeBit(c).c]
    /\ out' = [out EXCEPT ![t] = Append(@, TakeBit(c).result)]
    /\ pc' = [pc EXCEPT ![t] = "idle"]
    /\ arg' = [arg EXCEPT ![t] = NoArg]
    /\ rmw' = [rmw EXCEPT ![t] = NoRmw]

\* AtomicCursor(b, start, length), up to the first access of its fetch
Construct(t, start, length) ==
    /\ pc[t] = "new"
    /\ StartFetch(t, [NoCursor EXCEPT !.index = start, !.offset = start,
                                      !.max_index = start + length], "ctor")
    /\ UNCHANGED <<size, bits, bits0, hist, out, seqVars, listVars>>

\* atomic_and_return_orig called by fetch_clear_bits_atomic: the compare and
\* swap; when it swaps, the fetch returns and its caller goes on
FetchCAS(t) ==
    /\ pc[t] = "and_cas"
    /\ arg[t].op \in {"ctor", "next_set_bit"}
    /\ LET r == atomic_compare_and_swap_word(rmw[t].old_value,
                    And(rmw[t].old_value, rmw[t].mask), bits[rmw[t].addr])
           c == [cur[t] EXCEPT !.copied_bits =
                     FetchResult(rmw[t].old_value,
                                 FetchPlan(cur[t].index, cur[t].max_index))]
       IN  /\ bits' = [bits EXCEPT ![rmw[t].addr] = r.word]
           /\ IF ~r.ok
              THEN /\ pc' = [pc EXCEPT ![t] = "and_read"]
                   /\ UNCHANGED <<arg, rmw, cur, out>>
              ELSE IF arg[t].op = "ctor"
              THEN /\ cur' = [cur EXCEPT ![t] = c]
                   /\ pc' = [pc EXCEPT ![t] = "idle"]
                   /\ arg' = [arg EXCEPT ![t] = NoArg]
                   /\ rmw' = [rmw EXCEPT ![t] = NoRmw]
                   /\ UNCHANGED out
              ELSE ReturnBit(t, c)
    /\ UNCHANGED <<size, bits0, hist, seqVars, listVars>>

\* next_set_bit, up to the first access of its refill, or to its end when it
\* does not refill
next_set_bit(t) ==
    /\ pc[t] = "idle"
    /\ LET c == IF cur[t].copied_bits = all_zeros
                THEN [cur[t] EXCEPT !.index = @ + cur[t].valid_bits]
                ELSE cur[t]
       IN  IF c.copied_bits = all_zeros /\ c.index < c.max_index
           THEN /\ cur' = [cur EXCEPT ![t] =
                              [c EXCEPT !.skip = SkipStart(bp_cursor(c.index))]]
                /\ pc' = [pc EXCEPT ![t] = "skip"]
                /\ arg' = [arg EXCEPT ![t] = [op |-> "next_set_bit", bp |-> c.index]]
                /\ UNCHANGED <<rmw, out>>
           ELSE ReturnBit(t, c)
    /\ UNCHANGED <<size, bits, bits0, hist, listVars>>

\* a call of next_set_bit by a thread that was not yet answered not_found
\* MaxNotFound times
NextSetBit(t) ==
    /\ NotFounds(t) < MaxNotFound
    /\ next_set_bit(t)
    /\ UNCHANGED seqVars

\* a call of next_set_bit on a cursor that already answered not_found; the
\* words the vector held when the call was made are remembered
NextSetBitAgain(t) ==
    /\ NotFounds(t) >= 1
    /\ NotFounds(t) <= MaxNotFound
    /\ next_set_bit(t)
    /\ last' = [NoCall EXCEPT !.op = "next_set_bit", !.bp = t, !.pre = bits]

\* next_set_bit inside skip_all_zeros: one step of the skip; when the skip
\* ends, the fetch starts or the call returns
SkipRead(t) ==
    /\ pc[t] = "skip"
    /\ LET s == SkipStep(bits, cur[t].skip, bp_cursor(cur[t].max_index))
           c == [cur[t] EXCEPT !.skip = s, !.index = cursor_bp(s.cursor)]
       IN  IF s.phase # "done"
           THEN /\ cur' = [cur EXCEPT ![t].skip = s]
                /\ UNCHANGED <<pc, arg, rmw, out>>
           ELSE IF c.index < c.max_index
           THEN /\ StartFetch(t, c, "next_set_bit")
                /\ UNCHANGED out
           ELSE ReturnBit(t, c)
    /\ UNCHANGED <<size, bits, bits0, hist, seqVars, listVars>>

\* concurrent cursors: a vector of three words, bits at some of three
\* positions, ranges that overlap, that share a word, and that are disjoint
CursorProbes == {63, 70, 130}
CursorRanges == {<<0, 192>>, <<5, 95>>, <<100, 92>>}

InitCursor ==
    /\ size = bytes_needed(3 * bits_per_word)
    /\ \E S \in SUBSET CursorProbes :
           bits = [w \in Words(size) |-> {shift(p) : p \in {q \in S : index(q) = w}}]
    /\ bits0 = bits
    /\ last = NoCall
    /\ NoList
    /\ pc = [t \in Threads |-> "new"]
    /\ arg = [t \in Threads |-> NoArg]
    /\ rmw = [t \in Threads |-> NoRmw]
    /\ hist = [t \in Threads |-> <<>>]
    /\ cur = [t \in Threads |-> NoCursor]
    /\ out = [t \in Threads |-> <<>>]

NextCursor ==
    \/ \E t \in Threads, r \in CursorRanges : Construct(t, r[1], r[2])
    \/ \E t \in Threads : AndRead(t)
    \/ \E t \in Threads : FetchCAS(t)
    \/ \E t \in Threads : NextSetBit(t)
    \/ \E t \in Threads : SkipRead(t)

SpecCursor == InitCursor /\ [][NextCursor]_vars

\* one cursor and nothing else: vectors of every size, the contents of the
\* queries and bit 8 alone, a range from every probed start and of every
\* probed length
CursorContents(sz) ==
    QueryContents(sz) \cup {set_bits([w \in Words(sz) |-> all_zeros], 8, 1)}

InitOneCursor ==
    /\ \E n \in BitCounts : size = bytes_needed(n)
    /\ bits \in CursorContents(size)
    /\ bits0 = bits
    /\ last = NoCall
    /\ NoList
    /\ pc = [t \in Threads |-> IF t = 1 THEN "new" ELSE "off"]
    /\ arg = [t \in Threads |-> NoArg]
    /\ rmw = [t \in Threads |-> NoRmw]
    /\ hist = [t \in Threads |-> <<>>]
    /\ cur = [t \in Threads |-> NoCursor]
    /\ out = [t \in Threads |-> <<>>]

NextOneCursor ==
    \/ \E r \in Runs(size) : Construct(1, r[1], r[2])
    \/ AndRead(1)
    \/ FetchCAS(1)
    \/ NextSetBit(1)
    \/ SkipRead(1)

SpecOneCursor == InitOneCursor /\ [][NextOneCursor]_vars

\* cursors that claim on construction: two threads, a vector of three
\* words with bits at some of four positions, a range over the whole
\* vector, one that starts inside the first word, and one inside the second
\* word that ends before the next word boundary
EagerProbes == {63, 70, 80, 130}
EagerRanges == {<<0, 192>>, <<60, 132>>, <<66, 10>>}

InitEager ==
    /\ size = bytes_needed(3 * bits_per_word)
    /\ \E S \in SUBSET EagerProbes :
           bits = [w \in Words(size) |-> {shift(p) : p \in {q \in S : index(q) = w}}]
    /\ bits0 = bits
    /\ last = NoCall
    /\ NoList
    /\ pc = [t \in Threads |-> IF t \in {1, 2} THEN "new" ELSE "off"]
    /\ arg = [t \in Threads |-> NoArg]
    /\ rmw = [t \in Threads |-> NoRmw]
    /\ hist = [t \in Threads |-> <<>>]
    /\ cur = [t \in Threads |-> NoCursor]
    /\ out = [t \in Threads |-> <<>>]

NextEager ==
    \/ \E t \in {1, 2}, r \in EagerRanges : Construct(t, r[1], r[2])
    \/ \E t \in {1, 2} : AndRead(t)
    \/ \E t \in {1, 2} : FetchCAS(t)
    \/ \E t \in {1, 2} : NextSetBit(t)
    \/ \E t \in {1, 2} : SkipRead(t)

SpecEager == InitEager /\ [][NextEager]_vars

(***************************************************************************)
(* Claims about the cursors.                                               *)
(***************************************************************************)
\* the calls of thread t that returned a position
Yields(t) == {i \in 1 .. Len(out[t]) : out[t][i] # not_found}

\* the position in the vector of what the i-th call of thread t returned
Unbiased(t, i) == out[t][i] + cur[t].offset

\* the positions of the range of the cursor of thread t
RangeOf(t) == cur[t].offset .. (cur[t].max_index - 1)

\* thread t called next_set_bit until it returned not_found
Done(t) == pc[t] = "idle" /\ NotFounds(t) > 0

\* all the calls, of all threads, that returned a position
AllYields == UNION {{<<t, i>> : i \in Yields(t)} : t \in Threads}

\* C1: when every thread has run its cursor to not_found and the bits set at
\* the start all lay in the union of the ranges, the positions returned by
\* all threads are exactly those bits, each returned once, and no bit of the
\* vector is set any more.
C1_Partition ==
    ( /\ \A t \in Threads : Done(t)
      /\ SetPositions(bits0) \subseteq UNION {RangeOf(t) : t \in Threads} )
    => /\ \A p \in SetPositions(bits0) :
              Cardinality({y \in AllYields : Unbiased(y[1], y[2]) = p}) = 1
       /\ \A y \in AllYields : Unbiased(y[1], y[2]) \in SetPositions(bits0)
       /\ SetPositions(bits) = {}

\* C2: no position of the vector is returned by two calls of next_set_bit,
\* be they calls of one cursor or of two cursors.
C2_NoDoubleYield ==
    \A y, z \in AllYields :
        Unbiased(y[1], y[2]) = Unbiased(z[1], z[2]) => y = z

\* C2 witness: two cursors whose ranges overlap on a bit that was set have
\* both run to not_found, and each of them returned a position.
C2_Witness ==
    /\ Done(1) /\ Done(2)
    /\ Yields(1) # {} /\ Yields(2) # {}
    /\ RangeOf(1) \cap RangeOf(2) \cap SetPositions(bits0) # {}

\* C3: alone, a cursor returns positions of its range that were set at its
\* construction, in strictly increasing order and before any not_found; and
\* once it returned not_found it has returned every such position and every
\* bit of its range is clear.  (The values returned are the positions less
\* the start of the range.)
C3_SingleCursorEnumerates ==
    pc[1] # "new" =>
        LET was == SetPositions(bits0) \cap RangeOf(1)
            got == {Unbiased(1, i) : i \in Yields(1)}
        IN  /\ got \subseteq was
            /\ \A i \in 1 .. (Len(out[1]) - 1) :
                   /\ out[1][i] = not_found => out[1][i + 1] = not_found
                   /\ out[1][i + 1] # not_found => out[1][i] < out[1][i + 1]
            /\ Done(1) => /\ got = was
                          /\ SetPositions(bits) \cap RangeOf(1) = {}
                          /\ Cardinality(Yields(1)) = Cardinality(was)

\* C3 witness: a cursor that starts inside a word and spans several words has
\* returned three positions or more and then not_found.
C3_Witness ==
    /\ Done(1)
    /\ shift(cur[1].offset) # 0
    /\ index(cur[1].max_index - 1) > index(cur[1].offset) + 1
    /\ Cardinality(Yields(1)) >= 3
    /\ SetPositions(bits0) \ RangeOf(1) # {}

(***************************************************************************)
(* Progress.  Thread 1 runs a cursor while the other threads make atomic   *)
(* test calls on a bit of the cursor's first word.  A thread that is inside *)
(* a call is scheduled again and again (weak fairness of its steps); calls *)
(* are started at will.                                                    *)
(***************************************************************************)
ProgressRanges == {<<5, 2 * bits_per_word - 5>>}
ProgressBPs == {63}

\* the vector starts with the target bits and the background bit set
InitProgress ==
    /\ size = bytes_needed(2 * bits_per_word)
    /\ bits = set_bits([w \in Words(size) |->
                           {shift(p) : p \in {q \in TargetBPs : index(q) = w}}],
                       BackgroundBP, 1)
    /\ bits0 = bits
    /\ last = NoCall
    /\ NoList
    /\ pc = [t \in Threads |-> IF t = 1 THEN "new" ELSE "idle"]
    /\ arg = [t \in Threads |-> NoArg]
    /\ rmw = [t \in Threads |-> NoRmw]
    /\ hist = [t \in Threads |-> <<>>]
    /\ cur = [t \in Threads |-> NoCursor]
    /\ out = [t \in Threads |-> <<>>]

\* a step of thread t inside a call
Running(t) ==
    \/ OrRead(t)
    \/ OrCAS(t)
    \/ AndRead(t)
    \/ AndCAS(t)
    \/ FetchCAS(t)
    \/ SkipRead(t)

NextProgress ==
    \/ \E r \in ProgressRanges : Construct(1, r[1], r[2])
    \/ NextSetBit(1)
    \/ \E t \in Threads \ {1}, bp \in ProgressBPs : TestSetBitAtomic(t, bp)
    \/ \E t \in Threads \ {1}, bp \in ProgressBPs : TestClearBitAtomic(t, bp)
    \/ \E t \in Threads : Running(t)

SpecProgress ==
    /\ InitProgress
    /\ [][NextProgress]_vars
    /\ \A t \in Threads : WF_vars(Running(t))

(***************************************************************************)
(* Two cursors side by side.  Thread 1 runs a cursor over [5, cut) and     *)
(* thread 2 one over [cut, 192), the cut inside the second word; bits are  *)
(* set on both sides of the cut and in the words before and after.         *)
(***************************************************************************)
SharedCut == bits_per_word + 36
SharedProbes == {bits_per_word - 1, SharedCut - 1, SharedCut, 2 * bits_per_word + 2}

InitShared ==
    /\ size = bytes_needed(3 * bits_per_word)
    /\ \E S \in SUBSET SharedProbes :
           bits = [w \in Words(size) |-> {shift(p) : p \in {q \in S : index(q) = w}}]
    /\ bits0 = bits
    /\ last = NoCall
    /\ NoList
    /\ pc = [t \in Threads |-> IF t \in {1, 2} THEN "new" ELSE "off"]
    /\ arg = [t \in Threads |-> NoArg]
    /\ rmw = [t \in Threads |-> NoRmw]
    /\ hist = [t \in Threads |-> <<>>]
    /\ cur = [t \in Threads |-> NoCursor]
    /\ out = [t \in Threads |-> <<>>]

NextShared ==
    \/ Construct(1, 5, SharedCut - 5)
    \/ Construct(2, SharedCut, 3 * bits_per_word - SharedCut)
    \/ \E t \in {1, 2} : AndRead(t)
    \/ \E t \in {1, 2} : FetchCAS(t)
    \/ \E t \in {1, 2} : NextSetBit(t)
    \/ \E t \in {1, 2} : SkipRead(t)

SpecShared == InitShared /\ [][NextShared]_vars

(***************************************************************************)
(* A cursor that is done.  Thread 1 runs a cursor to not_found and goes on *)
(* calling next_set_bit; the other threads set bits of its range with      *)
(* test_set_bit_atomic, before and after.                                  *)
(***************************************************************************)
TerminalRanges == {<<5, bits_per_word + 31>>}
TerminalBPs == {10, 70}

InitTerminal ==
    /\ size = bytes_needed(2 * bits_per_word)
    /\ \E S \in SUBSET {63, 70} :
           bits = [w \in Words(size) |-> {shift(p) : p \in {q \in S : index(q) = w}}]
    /\ bits0 = bits
    /\ last = NoCall
    /\ NoList
    /\ pc = [t \in Threads |-> IF t = 1 THEN "new" ELSE "idle"]
    /\ arg = [t \in Threads |-> NoArg]
    /\ rmw = [t \in Threads |-> NoRmw]
    /\ hist = [t \in Threads |-> <<>>]
    /\ cur = [t \in Threads |-> NoCursor]
    /\ out = [t \in Threads |-> <<>>]

NextTerminal ==
    \/ \E r \in TerminalRanges : Construct(1, r[1], r[2])
    \/ AndRead(1)
    \/ FetchCAS(1)
    \/ NextSetBit(1)
    \/ SkipRead(1)
    \/ NextSetBitAgain(1)
    \/ \E t \in Threads \ {1}, bp \in TerminalBPs : TestSetBitAtomic(t, bp)
    \/ \E t \in Threads \ {1} : OrRead(t)
    \/ \E t \in Threads \ {1} : OrCAS(t)

SpecTerminal == InitTerminal /\ [][NextTerminal]_vars

(***************************************************************************)
(* Plain calls beside atomic calls.  set_bit and clear_bit are a read of   *)
(* the word and a write of it, with no exclusion: each is a step, and the  *)
(* steps of other threads fall between them or not.  Thread 1 makes plain  *)
(* calls on one bit, the other threads atomic test calls on another bit of *)
(* the same word.                                                          *)
(***************************************************************************)
PlainBP == SetMin(TargetBPs)
RacingBP == SetMax(TargetBPs)

\* set_bit(bp): *cursor |= (1L << shift(bp)), up to the read of the word
SetBit(t, bp) ==
    /\ pc[t] = "idle"
    /\ Calls < MaxCalls
    /\ pc' = [pc EXCEPT ![t] = "plain_write"]
    /\ arg' = [arg EXCEPT ![t] = [op |-> "set_bit", bp |-> bp]]
    /\ rmw' = [rmw EXCEPT ![t] = [mask |-> BitOf(bp), addr |-> bp_cursor(bp),
                                  old_value |-> bits[bp_cursor(bp)]]]
    /\ UNCHANGED <<size, bits, bits0, hist, cur, out, seqVars, listVars>>

\* clear_bit(bp): *cursor &= ~(1L << shift(bp)), up to the read of the word
ClearBit(t, bp) ==
    /\ pc[t] = "idle"
    /\ Calls < MaxCalls
    /\ pc' = [pc EXCEPT ![t] = "plain_write"]
    /\ arg' = [arg EXCEPT ![t] = [op |-> "clear_bit", bp |-> bp]]
    /\ rmw' = [rmw EXCEPT ![t] = [mask |-> Not(BitOf(bp)), addr |-> bp_cursor(bp),
                                  old_value |-> bits[bp_cursor(bp)]]]
    /\ UNCHANGED <<size, bits, bits0, hist, cur, out, seqVars, listVars>>

\* what set_bit or clear_bit writes, having read old_value
plain_store(op, old_value, m) ==
    IF op = "set_bit" THEN Or(old_value, m) ELSE And(old_value, m)

\* the write of set_bit or clear_bit, and its return
PlainWrite(t) ==
    /\ pc[t] = "plain_write"
    /\ bits' = [bits EXCEPT ![rmw[t].addr] =
                    plain_store(arg[t].op, rmw[t].old_value, rmw[t].mask)]
    /\ hist' = [hist EXCEPT ![t] =
                    Append(@, Completed(t, arg[t].op, arg[t].bp, FALSE,
                                        bits'[rmw[t].addr] # bits[rmw[t].addr]))]
    /\ pc' = [pc EXCEPT ![t] = "idle"]
    /\ arg' = [arg EXCEPT ![t] = NoArg]
    /\ rmw' = [rmw EXCEPT ![t] = NoRmw]
    /\ UNCHANGED <<size, bits0, cur, out, seqVars, listVars>>

NextRace ==
    \/ SetBit(1, PlainBP)
    \/ ClearBit(1, PlainBP)
    \/ PlainWrite(1)
    \/ \E t \in Threads \ {1} : TestSetBitAtomic(t, RacingBP)
    \/ \E t \in Threads \ {1} : TestClearBitAtomic(t, RacingBP)
    \/ \E t \in Threads \ {1} : OrRead(t)
    \/ \E t \in Threads \ {1} : OrCAS(t)
    \/ \E t \in Threads \ {1} : AndRead(t)
    \/ \E t \in Threads \ {1} : AndCAS(t)

SpecRace == InitAtomic /\ [][NextRace]_vars

(***************************************************************************)
(* FreeListNode.  A node lies at the start of the free block it describes: *)
(* the words _prev, _next, _size and the byte _purged, in this order, and  *)
(* the size once more in the last word of the block.  Memory is a function *)
(* from byte addresses of words to words; pointers are stored flipped.     *)
(***************************************************************************)
NULL == 0

allocate_quantum_medium_log2 == 11
allocate_quantum_medium == Pow2(allocate_quantum_medium_log2)
sizeof_usword_t == Pow2(bytes_per_word_log2)
\* _prev, _next, _size, and _purged padded to a word
sizeof_FreeListNode == 4 * sizeof_usword_t

Xor(x, y) == (x \ y) \cup (y \ x)

\* flip(node): uintptr_t(node) ^ all_ones
flip(w) == Xor(w, all_ones)

prev_at(a) == a
next_at(a) == a + sizeof_usword_t
size_at(a) == a + 2 * sizeof_usword_t
purged_at(a) == a + 3 * sizeof_usword_t

\* displace(address, offset)
displace(a, offset) == a + offset

\* the blocks: at fixed addresses, far enough apart for the largest size
BlockStride == 2 * allocate_quantum_medium
BlockAddrs == {BlockStride * (i + 1) : i \in 0 .. (NumBlocks - 1)}
BlockSizes == {sizeof_FreeListNode, 2 * sizeof_FreeListNode, allocate_quantum_medium}

\* the sizes of nodes on their own: the header alone, the header and one
\* word, a medium quantum; and their addresses: a first block, and a second
\* block right after a first block of any of the sizes
NodeSizes == {sizeof_FreeListNode, sizeof_FreeListNode + sizeof_usword_t,
              allocate_quantum_medium}
NodeBase == BlockStride
NodeAddrs == {NodeBase} \cup {NodeBase + s : s \in NodeSizes}

\* the words of the addresses and sizes in use, and the numbers of the
\* words, worked out once
ListNumbers == {NULL} \cup BlockAddrs \cup BlockSizes \cup NodeAddrs \cup NodeSizes
ListWord == [v \in ListNumbers |-> WordOf(v) \cap WordBits]
ListNat == [w \in {ListWord[v] : v \in ListNumbers} |-> ToNat(w)]
usword(v) == IF v \in ListNumbers THEN ListWord[v] ELSE WordOf(v)
number(w) == IF w \in DOMAIN ListNat THEN ListNat[w] ELSE ToNat(w)

prev(m, a) == number(flip(m[prev_at(a)]))
next(m, a) == number(flip(m[next_at(a)]))
node_size(m, a) == number(m[size_at(a)])
size_again(m, a) == number(m[displace(a, node_size(m, a) - sizeof_usword_t)])

set_prev(m, a, p) == [m EXCEPT ![prev_at(a)] = flip(usword(p))]
set_next(m, a, n) == [m EXCEPT ![next_at(a)] = flip(usword(n))]

\* set_size that sets the _size field alone
set_size_field_only(m, a, s) == [m EXCEPT ![size_at(a)] = usword(s)]

\* set_size: the _size field, then the last word of the block that _size gives
set_size(m, a, s) ==
    LET m1 == [m EXCEPT ![size_at(a)] = usword(s)]
    IN  [m1 EXCEPT ![displace(a, node_size(m1, a) - sizeof_usword_t)] = usword(s)]

\* _purged = false: one byte of the word after _size
clear_purged(m, a) ==
    [m EXCEPT ![purged_at(a)] = And(@, Not(mask(Pow2(bits_per_byte_log2))))]

\* new(a) FreeListNode(prev, next, size)
FreeListNode3(m, a, p, n, s) ==
    LET m1 == set_size(set_next(set_prev(m, a, p), a, n), a, s)
    IN  IF s >= allocate_quantum_medium THEN clear_purged(m1, a) ELSE m1

\* new(a) FreeListNode(): a node reconstructed in place
FreeListNode0(m, a) == set_next(set_prev(m, a, NULL), a, NULL)

\* prior_node that takes the word before the node for the address
prior_node_direct(m, a) == m[displace(a, 0 - sizeof_usword_t)]

\* prior_node: the address, as a word, that lies before the node by what the
\* word before the node holds
prior_node(m, a) == Sub(usword(a), m[displace(a, 0 - sizeof_usword_t)])

\* next_block: the address, as a word, that lies _size after the node
next_block(m, a) == Add(usword(a), m[size_at(a)])

(***************************************************************************)
(* Nodes on their own.  Two free blocks lie one right after the other, a   *)
(* node constructed in each.  `last` remembers, besides the call, the      *)
(* blocks that hold a node now (`live`) and the link words of the node     *)
(* before the call.                                                        *)
(***************************************************************************)
\* the links nodes are built with
NodeLinks == {<<NULL, NULL>>, <<NodeBase + sizeof_FreeListNode, NodeBase>>}
NodeWords ==
    UNION {{a + k * sizeof_usword_t : k \in 0 .. 3}
               \cup {a + s - sizeof_usword_t : s \in NodeSizes} : a \in NodeAddrs}

\* the block at a of size s overlaps none of the blocks of live but its own
Apart(live, a, s) ==
    \A b \in live : b[1] = a \/ b[1] + b[2] <= a \/ a + s <= b[1]

\* the blocks of live, the one at a being of size s from now on
Resized(live, a, s) == {b \in live : b[1] # a} \cup {<<a, s>>}

\* memory that was used before; new(a) FreeListNode(prev, next, size) at the
\* base and right after that block
InitNode ==
    /\ NoBitmap
    /\ NoThreads
    /\ head = NULL
    /\ tail = NULL
    /\ \E sA \in NodeSizes, sB \in NodeSizes, lA \in NodeLinks, lB \in NodeLinks :
           LET m0 == [w \in NodeWords |-> all_ones]
               m1 == FreeListNode3(m0, NodeBase, lA[1], lA[2], sA)
           IN  /\ mem = FreeListNode3(m1, NodeBase + sA, lB[1], lB[2], sB)
               /\ last = [op |-> "construct", bp |-> NodeBase + sA, n |-> sB,
                          res |-> all_zeros,
                          pre |-> [live |-> {<<NodeBase, sA>>, <<NodeBase + sA, sB>>},
                                   links |-> <<m1[prev_at(NodeBase + sA)],
                                               m1[next_at(NodeBase + sA)]>>]]

\* the call op on the node at a, with size s, gave res and leaves memory m2
NodeCall(op, a, s, res, m2, live2) ==
    /\ mem' = m2
    /\ last' = [op |-> op, bp |-> a, n |-> s, res |-> res,
                pre |-> [live |-> live2,
                         links |-> <<mem[prev_at(a)], mem[next_at(a)]>>]]
    /\ UNCHANGED <<size, bits, thrVars, head, tail>>

\* node->set_size(s) on a node that is there
SetSize(a, s) ==
    /\ \E b \in last.pre.live : b[1] = a
    /\ Apart(last.pre.live, a, s)
    /\ NodeCall("set_size", a, s, all_zeros, set_size(mem, a, s),
                Resized(last.pre.live, a, s))

\* node->prior_node() on a node that is there
PriorNode(a) ==
    /\ \E b \in last.pre.live : b[1] = a
    /\ displace(a, 0 - sizeof_usword_t) \in NodeWords
    /\ NodeCall("prior_node", a, 0, prior_node(mem, a), mem, last.pre.live)

\* node->next_block() on a node that is there
NextBlock(a) ==
    /\ \E b \in last.pre.live : b[1] = a
    /\ NodeCall("next_block", a, 0, next_block(mem, a), mem, last.pre.live)

NextNode ==
    \/ \E a \in NodeAddrs, s \in NodeSizes : SetSize(a, s)
    \/ \E a \in NodeAddrs : PriorNode(a)
    \/ \E a \in NodeAddrs : NextBlock(a)

SpecNode == InitNode /\ [][NextNode]_vars

(***************************************************************************)
(* FreeList.  A list is the record of _head, _tail and the memory; each    *)
(* operation gives the list after it (and pop, the node it returns).       *)
(***************************************************************************)
TheList == [head |-> head, tail |-> tail, mem |-> mem]

\* pop that leaves the back link of the new head as it was
pop_keeps_prev(L) ==
    LET node == L.head
    IN  IF node # NULL
        THEN LET h == next(L.mem, node)
             IN  [head |-> h, tail |-> IF h # NULL THEN L.tail ELSE NULL,
                  mem |-> L.mem, res |-> node]
        ELSE [head |-> L.head, tail |-> L.tail, mem |-> L.mem, res |-> node]

pop(L) ==
    LET node == L.head
    IN  IF node # NULL
        THEN LET h == next(L.mem, node)
             IN  IF h # NULL
                 THEN [head |-> h, tail |-> L.tail,
                       mem |-> set_prev(L.mem, h, NULL), res |-> node]
                 ELSE [head |-> h, tail |-> NULL, mem |-> L.mem, res |-> node]
        ELSE [head |-> L.head, tail |-> L.tail, mem |-> L.mem, res |-> node]

\* push that does not link the old head back to the new node
push_one_way(L, address, s) ==
    LET m1 == FreeListNode3(L.mem, address, NULL, L.head, s)
    IN  [head |-> address, tail |-> IF L.head # NULL THEN L.tail ELSE address,
         mem |-> m1]

push(L, address, s) ==
    LET node == address
        m1 == FreeListNode3(L.mem, address, NULL, L.head, s)
    IN  IF L.head # NULL
        THEN [head |-> node, tail |-> L.tail, mem |-> set_prev(m1, L.head, node)]
        ELSE [head |-> node, tail |-> node, mem |-> m1]

\* append that does not link the old tail forward to the node
append_one_way(L, node) ==
    LET m1 == set_prev(L.mem, node, L.tail)
    IN  [head |-> IF L.head = NULL THEN node ELSE L.head, tail |-> node, mem |-> m1]

append(L, node) ==
    LET m1 == set_prev(L.mem, node, L.tail)
    IN  IF L.head = NULL
        THEN [head |-> node, tail |-> node, mem |-> m1]
        ELSE [head |-> L.head, tail |-> node, mem |-> set_next(m1, L.tail, node)]

\* remove that links the predecessor forward only
remove_one_way(L, node) ==
    LET p == prev(L.mem, node)
    IN  IF p # NULL
        THEN LET n == next(L.mem, node)
                 m1 == set_next(L.mem, p, n)
             IN  [head |-> L.head, tail |-> IF n # NULL THEN L.tail ELSE p, mem |-> m1]
        ELSE LET popped == pop(L)
             IN  [head |-> popped.head, tail |-> popped.tail, mem |-> popped.mem]

remove(L, node) ==
    LET p == prev(L.mem, node)
    IN  IF p # NULL
        THEN LET n == next(L.mem, node)
                 m1 == set_next(L.mem, p, n)
             IN  IF n # NULL
                 THEN [head |-> L.head, tail |-> L.tail, mem |-> set_prev(m1, n, p)]
                 ELSE [head |-> L.head, tail |-> p, mem |-> m1]
        ELSE LET popped == pop(L)
             IN  [head |-> popped.head, tail |-> popped.tail, mem |-> popped.mem]

RECURSIVE InsertScan(_, _, _, _)
\* while (nextNode != NULL) { if (address < nextNode) break; prevNode = nextNode; ... }
InsertScan(m, address, prevNode, nextNode) ==
    IF nextNode = NULL THEN <<prevNode, nextNode>>
    ELSE IF address < nextNode THEN <<prevNode, nextNode>>
    ELSE InsertScan(m, address, nextNode, next(m, nextNode))

\* insert that puts the node at the head without a scan
insert_unsorted(L, address, s) == push(L, address, s)

insert(L, address, s) ==
    LET found == InsertScan(L.mem, address, NULL, L.head)
        prevNode == found[1]
        nextNode == found[2]
        node == address
        m1 == FreeListNode3(L.mem, address, prevNode, nextNode, s)
        m2 == IF nextNode # NULL THEN set_prev(m1, nextNode, node) ELSE m1
        m3 == IF prevNode # NULL THEN set_next(m2, prevNode, node) ELSE m2
    IN  [head |-> IF L.head = nextNode THEN node ELSE L.head,
         tail |-> IF L.tail = prevNode THEN node ELSE L.tail,
         mem |-> m3]

\* reset that also clears the links of the head node
reset_wipes(L) ==
    [head |-> NULL, tail |-> NULL,
     mem |-> IF L.head # NULL THEN FreeListNode0(L.mem, L.head) ELSE L.mem]

reset(L) == [head |-> NULL, tail |-> NULL, mem |-> L.mem]

(***************************************************************************)
(* The free list in use.                                                   *)
(***************************************************************************)
\* the size block a is given when the sizes are not chosen call by call
BlockSize(a) ==
    LET i == (a \div BlockStride) % 3
    IN  IF i = 1 THEN sizeof_FreeListNode
        ELSE IF i = 2 THEN allocate_quantum_medium
        ELSE 2 * sizeof_FreeListNode

\* the words of memory a list operation can reach
ArenaWords ==
    UNION {{a + k * sizeof_usword_t : k \in 0 .. 3}
               \cup {a + s - sizeof_usword_t : s \in BlockSizes} : a \in BlockAddrs}

RECURSIVE Walk(_, _, _)
\* the nodes met from node by next, at most fuel of them
Walk(m, node, fuel) ==
    IF node = NULL \/ fuel = 0 THEN <<>>
    ELSE <<node>> \o Walk(m, next(m, node), fuel - 1)

\* the nodes met from the head by next (one more than there are blocks, if
\* the walk does not end)
ListSeq(L) == Walk(L.mem, L.head, NumBlocks + 1)

OnList(L) == LET sq == ListSeq(L) IN {sq[i] : i \in 1 .. Len(sq)}

\* what a call remembers of the list before it
Before(L) == [head |-> L.head, tail |-> L.tail, order |-> ListSeq(L)]

\* the block at a holds a node: its size is a block size and is found again
\* in the last word of the block
IsNode(m, a) ==
    /\ \E s \in BlockSizes : m[size_at(a)] = usword(s)
    /\ m[displace(a, node_size(m, a) - sizeof_usword_t)] = m[size_at(a)]

\* an empty list over memory that holds one of the words of Fill everywhere
InitListOver(Fill) ==
    /\ NoBitmap
    /\ NoThreads
    /\ last = [op |-> "none", bp |-> NULL, n |-> 0, res |-> NULL, pre |-> Before([head |-> NULL, tail |-> NULL, mem |-> <<>>])]
    /\ head = NULL
    /\ tail = NULL
    /\ \E fill \in Fill : mem = [w \in ArenaWords |-> fill]

\* memory fresh from the system, all zeros
InitList == InitListOver({all_zeros})

\* the list becomes L2 by the call op(a, s) that returned res
ListCall(op, a, s, res, L2) ==
    /\ LET after == L2
       IN  /\ head' = after.head
           /\ tail' = after.tail
           /\ mem' = after.mem
    /\ last' = [op |-> op, bp |-> a, n |-> s, res |-> res, pre |-> Before(TheList)]
    /\ UNCHANGED <<size, bits, thrVars>>

Push(a, s) ==
    /\ a \notin OnList(TheList)
    /\ ListCall("push", a, s, NULL, push(TheList, a, s))

Insert(a, s) ==
    /\ a \notin OnList(TheList)
    /\ ListCall("insert", a, s, NULL, insert(TheList, a, s))

\* append of a node newly constructed with null links
AppendNew(a, s) ==
    /\ a \notin OnList(TheList)
    /\ ListCall("append", a, s, NULL,
                append([TheList EXCEPT !.mem = FreeListNode3(mem, a, NULL, NULL, s)], a))

\* append of a node reconstructed in place
AppendAgain(a) ==
    /\ a \notin OnList(TheList)
    /\ IsNode(mem, a)
    /\ ListCall("append", a, node_size(mem, a), NULL,
                append([TheList EXCEPT !.mem = FreeListNode0(mem, a)], a))

Pop ==
    LET popped == pop(TheList)
    IN  ListCall("pop", NULL, 0, popped.res,
                 [head |-> popped.head, tail |-> popped.tail, mem |-> popped.mem])

Remove(a) ==
    /\ a \in OnList(TheList)
    /\ ListCall("remove", a, 0, NULL, remove(TheList, a))

Reset ==
    /\ ListCall("reset", NULL, 0, NULL, reset(TheList))

NextList ==
    \/ \E a \in BlockAddrs : Push(a, BlockSize(a))
    \/ \E a \in BlockAddrs : Insert(a, BlockSize(a))
    \/ \E a \in BlockAddrs : AppendNew(a, BlockSize(a))
    \/ \E a \in BlockAddrs : AppendAgain(a)
    \/ Pop
    \/ \E a \in BlockAddrs : Remove(a)
    \/ Reset

SpecList == InitList /\ [][NextList]_vars

\* append of a node that was on the list before, as pop or remove left it
AppendStale(a) ==
    /\ a \notin OnList(TheList)
    /\ IsNode(mem, a)
    /\ ListCall("append", a, node_size(mem, a), NULL, append(TheList, a))

\* nodes are pushed, popped and removed, and appended again as they are
NextStale ==
    \/ \E a \in BlockAddrs : Push(a, BlockSize(a))
    \/ Pop
    \/ \E a \in BlockAddrs : Remove(a)
    \/ \E a \in BlockAddrs : AppendStale(a)

SpecStale == InitList /\ [][NextStale]_vars

\* nodes are inserted, popped and removed; none is pushed or appended
NextSorted ==
    \/ \E a \in BlockAddrs : Insert(a, BlockSize(a))
    \/ Pop
    \/ \E a \in BlockAddrs : Remove(a)

SpecSorted == InitList /\ [][NextSorted]_vars

\* insertions only, the size chosen call by call
NextInsert == \E a \in BlockAddrs, s \in BlockSizes : Insert(a, s)

\* memory that was used before: all zeros, or all ones
InitInsert == InitListOver({all_zeros, all_ones})

SpecInsert == InitInsert /\ [][NextInsert]_vars

\* C18: what next_set_bit returns is the position in the vector less the
\* start of the cursor: a result r other than not_found has 0 <= r < length,
\* start + r was set in the vector and is clear now, and the first result of
\* a lone cursor is the lowest set position of its range less the start
\* (start 5 and bit 8 give 3).
C18_ResultIsBiased ==
    \A t \in Threads : pc[t] \notin {"new", "off"} =>
        LET was == SetPositions(bits0) \cap RangeOf(t)
            got == {out[t][i] : i \in Yields(t)}
        IN  /\ \A r \in got : 0 <= r /\ r < cur[t].max_index - cur[t].offset
            /\ {cur[t].offset + r : r \in got} \subseteq was \ SetPositions(bits)
            /\ (Len(out[t]) >= 1 /\ was # {}) =>
                   out[t][1] = SetMin(was) - cur[t].offset

\* C18 witness: a cursor that starts at 5 over a vector whose lowest set bit
\* from there is 8 returned 3 on its first call.
C18_Witness ==
    /\ cur[1].offset = 5
    /\ 8 \in SetPositions(bits0) \cap RangeOf(1)
    /\ \A p \in SetPositions(bits0) \cap RangeOf(1) : 8 <= p
    /\ Len(out[1]) >= 1
    /\ out[1][1] = 3

\* the completed atomic test calls, each with its thread and its place
AllCalls == UNION {{<<t, i>> : i \in 1 .. Len(hist[t])} : t \in Threads}

\* the positions of word w on which a call of operation op completed
CalledOn(op, w) ==
    {hist[c[1]][c[2]].bp : c \in {d \in AllCalls : /\ hist[d[1]][d[2]].op = op
                                                   /\ index(hist[d[1]][d[2]].bp) = w}}

\* no two completed calls are on the same position
DistinctPositions ==
    \A c, d \in AllCalls : hist[c[1]][c[2]].bp = hist[d[1]][d[2]].bp => c = d

\* C19: when the threads' test_set_bit_atomic / test_clear_bit_atomic calls
\* are on pairwise distinct positions, then whenever no call is running each
\* word is the word of the start with every position of a test_set call set
\* and every position of a test_clear call cleared, the other bits as they
\* were, however the reads and the compare and swaps interleaved.
C19_NoLostUpdate ==
    (DistinctPositions /\ \A t \in Threads : pc[t] = "idle") =>
        \A w \in DOMAIN bits :
            bits[w] = (bits0[w] \cup {shift(p) : p \in CalledOn("test_set", w)})
                          \ {shift(p) : p \in CalledOn("test_clear", w)}

\* C19 witness: two threads have each changed a bit of the same word, one by
\* test_set_bit_atomic and one by test_clear_bit_atomic, and no call is
\* running.
C19_Witness ==
    /\ DistinctPositions
    /\ \A t \in Threads : pc[t] = "idle"
    /\ \E t, u \in Threads :
           /\ t # u
           /\ Len(hist[t]) = 1 /\ Len(hist[u]) = 1
           /\ hist[t][1].op = "test_set" /\ hist[t][1].did
           /\ hist[u][1].op = "test_clear" /\ hist[u][1].did
           /\ index(hist[t][1].bp) = index(hist[u][1].bp)

\* thread t is inside a call
InCall(t) == pc[t] \in {"or_read", "or_cas", "and_read", "and_cas", "skip"}

\* thread t is at a compare and swap with the word it read
AtCAS(t) == pc[t] \in {"or_cas", "and_cas"}

\* a step that changes word w is the compare and swap of one thread that
\* holds the current value of w as its old value
OnlyCASWrites ==
    \A w \in DOMAIN bits :
        bits'[w] # bits[w] =>
            \E u \in Threads :
                /\ AtCAS(u)
                /\ rmw[u].addr = w
                /\ rmw[u].old_value = bits[w]
                /\ pc'[u] # pc[u]

\* a thread at its compare and swap holds the value the word had when it
\* read it, unless a step in between changed the word
ReadIsFresh ==
    \A t \in Threads :
        (pc[t] \in {"or_read", "and_read"} /\ AtCAS(t)')
            => rmw'[t].old_value = bits[rmw[t].addr]

\* C20: with every thread inside a call scheduled again and again, every
\* call returns (the compare and swap loops end); and a compare and swap
\* fails only when another thread's compare and swap changed the word after
\* the read: the read takes the current word, and only a compare and swap
\* that succeeds changes a word.
C20_LockFreeProgress ==
    /\ \A t \in Threads : InCall(t) ~> pc[t] = "idle"
    /\ [][OnlyCASWrites /\ ReadIsFresh]_vars

\* C20 witness: a thread is at a compare and swap that will fail, the word
\* having changed since it read it.
C20_Witness ==
    \E t \in Threads : AtCAS(t) /\ rmw[t].old_value # bits[rmw[t].addr]

(***************************************************************************)
(* Claims about the free list.                                             *)
(***************************************************************************)
RECURSIVE SortSet(_)
\* the numbers of S in increasing order
SortSet(S) == IF S = {} THEN <<>> ELSE <<SetMin(S)>> \o SortSet(S \ {SetMin(S)})

\* the blocks a node was constructed in
Constructed == {a \in BlockAddrs : IsNode(mem, a)}

\* sq without its i-th element
Without(sq, i) == SubSeq(sq, 1, i - 1) \o SubSeq(sq, i + 1, Len(sq))

\* where x is in sq
PlaceOf(sq, x) == CHOOSE i \in 1 .. Len(sq) : sq[i] = x

\* C11: after insertions only, in whatever order they were called, the walk
\* from the head visits exactly the inserted addresses in strictly increasing
\* order, the head is the lowest and the tail the highest of them.
C11_InsertSorts ==
    /\ ListSeq(TheList) = SortSet(Constructed)
    /\ IF Constructed = {}
       THEN head = NULL /\ tail = NULL
       ELSE head = SetMin(Constructed) /\ tail = SetMax(Constructed)

\* C11 witness: every block is on the list and the one inserted last went
\* between two others.
C11_Witness ==
    /\ last.op = "insert"
    /\ Len(ListSeq(TheList)) = NumBlocks
    /\ last.bp = ListSeq(TheList)[2]

\* head and tail are both null, or the nodes form one chain from head to tail
WellFormed(L) ==
    \/ L.head = NULL /\ L.tail = NULL
    \/ /\ L.head # NULL /\ L.tail # NULL
       /\ prev(L.mem, L.head) = NULL
       /\ next(L.mem, L.tail) = NULL
       /\ LET sq == ListSeq(L)
          IN  /\ Len(sq) <= NumBlocks
              /\ \A i, j \in 1 .. Len(sq) : sq[i] = sq[j] => i = j
              /\ sq[Len(sq)] = L.tail
              /\ \A i \in 1 .. (Len(sq) - 1) : prev(L.mem, sq[i + 1]) = sq[i]

\* C12: after any sequence of push, insert, append of constructed nodes, pop,
\* remove of listed nodes and reset, head and tail are both null or the list
\* is one chain from head to tail, without a cycle, whose back links mirror
\* its forward links.
C12_ListWellFormed == WellFormed(TheList)

\* C12 witness: after a removal the list holds two nodes out of address order
\* and the removed block still holds its node.
C12_Witness ==
    /\ last.op = "remove"
    /\ Len(ListSeq(TheList)) = 2
    /\ ListSeq(TheList)[1] > ListSeq(TheList)[2]
    /\ last.bp \in Constructed

\* C13: pop returns the head and removes only it; the second node becomes
\* the head with a null back link; a list of one node becomes empty; on an
\* empty list pop returns null and the list stays empty.
C13_PopTakesHead ==
    last.op = "pop" =>
        LET o == last.pre.order
        IN  /\ last.res = last.pre.head
            /\ ListSeq(TheList) = (IF o = <<>> THEN <<>> ELSE Tail(o))
            /\ Len(o) <= 1 => head = NULL /\ tail = NULL
            /\ Len(o) = 0 => last.res = NULL
            /\ Len(o) >= 1 => last.res = o[1]
            /\ Len(o) >= 2 => /\ head = o[2]
                              /\ prev(mem, head) = NULL
                              /\ tail = last.pre.tail

\* C13 witness: a pop from a list that held every block.
C13_Witness ==
    /\ last.op = "pop"
    /\ Len(last.pre.order) = NumBlocks
    /\ last.res # NULL

\* C14: remove(x) of a listed node gives the list without x, the others in
\* their order; the nodes around x are linked to each other, the head moves
\* when x was the head, the tail when x was the tail.
C14_RemoveUnlinks ==
    last.op = "remove" =>
        LET o == last.pre.order
            i == PlaceOf(o, last.bp)
            before == IF i = 1 THEN NULL ELSE o[i - 1]
            after == IF i = Len(o) THEN NULL ELSE o[i + 1]
        IN  /\ ListSeq(TheList) = Without(o, i)
            /\ before # NULL => next(mem, before) = after
            /\ after # NULL => prev(mem, after) = before
            /\ head = (IF i = 1 THEN after ELSE last.pre.head)
            /\ tail = (IF i = Len(o) THEN before ELSE last.pre.tail)

\* C14 witness: the node removed was neither the head nor the tail.
C14_Witness ==
    /\ last.op = "remove"
    /\ Len(last.pre.order) = NumBlocks
    /\ last.bp = last.pre.order[2]

\* C15: push puts the new node at the head, linked both ways with the old
\* head, and leaves the tail unless the list was empty; a pop right after
\* it returns the node pushed and gives back the head, the tail and the
\* order there were before the push.
C15_PushThenPop ==
    last.op = "push" =>
        /\ head = last.bp
        /\ prev(mem, head) = NULL
        /\ next(mem, head) = last.pre.head
        /\ last.pre.head # NULL => prev(mem, last.pre.head) = last.bp
        /\ tail = (IF last.pre.head = NULL THEN last.bp ELSE last.pre.tail)
        /\ ListSeq(TheList) = <<last.bp>> \o last.pre.order
        /\ LET popped == pop(TheList)
           IN  /\ popped.res = last.bp
               /\ popped.head = last.pre.head
               /\ popped.tail = last.pre.tail
               /\ ListSeq(popped) = last.pre.order
               /\ WellFormed(popped)

\* C15 witness: a push onto a list of two nodes.
C15_Witness ==
    /\ last.op = "push"
    /\ Len(last.pre.order) = 2

\* C16: append puts the node at the tail, linked both ways with the old
\* tail, the nodes before it in their order, and leaves the head unless the
\* list was empty.
C16_AppendAtTail ==
    last.op = "append" =>
        /\ tail = last.bp
        /\ prev(mem, last.bp) = last.pre.tail
        /\ next(mem, last.bp) = NULL
        /\ last.pre.tail # NULL => next(mem, last.pre.tail) = last.bp
        /\ head = (IF last.pre.order = <<>> THEN last.bp ELSE last.pre.head)
        /\ ListSeq(TheList) = last.pre.order \o <<last.bp>>

\* C16 witness: an append of the lowest block to a list of two nodes.
C16_Witness ==
    /\ last.op = "append"
    /\ Len(last.pre.order) = 2
    /\ \A i \in 1 .. 2 : last.bp < last.pre.order[i]

\* C17: reset makes head and tail null and writes no word of memory.
C17_ResetWritesNothing ==
    [][last'.op = "reset" => head' = NULL /\ tail' = NULL /\ mem' = mem]_vars

\* C17 witness: a reset of a list of two nodes or more, whose nodes are still
\* linked as they were.
C17_Witness ==
    /\ last.op = "reset"
    /\ Len(last.pre.order) >= 2
    /\ ListSeq([head |-> last.pre.head, tail |-> last.pre.tail, mem |-> mem]) = last.pre.order

(***************************************************************************)
(* Claims about the sequential operations.                                 *)
(***************************************************************************)

\* C4: count_set() returns the number of positions of the vector whose bit is
\* 1, for every size and content (70 after set_bits(5, 70) on 128 bits).
C4_CountSetIsPopulation ==
    last.op = "count_set" => last.res = Cardinality(SetPositions(bits))

\* C5: after set_bits(bp, n) the bits of [bp, bp + n) are 1 and every other
\* bit is as before; after clear_bits(bp, n) the bits of [bp, bp + n) are 0
\* and every other bit is as before.
C5_SetClearBitsExact ==
    /\ last.op = "set_bits" =>
           SetPositions(bits) =
               SetPositions(last.pre) \cup (last.bp .. (last.bp + last.n - 1))
    /\ last.op = "clear_bits" =>
           SetPositions(bits) =
               SetPositions(last.pre) \ (last.bp .. (last.bp + last.n - 1))

\* C5 witness: set_bits over a partial first word, full interior words and a
\* partial last word, on a vector that held both 0s and 1s in the first word.
C5_Witness ==
    /\ last.op = "set_bits"
    /\ shift(last.bp) # 0
    /\ shift(last.bp + last.n) # 0
    /\ index(last.bp + last.n) - index(last.bp) >= 3
    /\ last.pre[index(last.bp)] \notin {all_zeros, all_ones}
    /\ bits # last.pre

\* C6: next_set(bp) is the smallest position p >= bp whose bit is 1, and
\* not_found exactly when there is none; the result is below size_in_bits
\* and the vector is unchanged.
C6_NextSetIsLinearScan ==
    last.op = "next_set" =>
        LET later == {p \in SetPositions(bits) : p >= last.bp}
        IN  /\ last.res = (IF later = {} THEN not_found ELSE SetMin(later))
            /\ last.res < size_in_bits(size)
            /\ bits = last.pre

\* C6 witness: the first set bit lies five words or more after bp, so the
\* zero run is skipped by the four word loop; bp is not word aligned.
C6_Witness ==
    /\ last.op = "next_set"
    /\ last.res # not_found
    /\ shift(last.bp) # 0
    /\ index(last.res) - index(last.bp) >= 5

\* C7: previous_set(bp) is the greatest position p <= bp whose bit is 1 (bp
\* itself when its bit is 1), and not_found exactly when there is none.
C7_PreviousSetAtOrBefore ==
    last.op = "previous_set" =>
        LET earlier == {p \in SetPositions(bits) : p <= last.bp}
        IN  last.res = (IF earlier = {} THEN not_found ELSE SetMax(earlier))

(***************************************************************************)
(* Claims about the atomic primitives.                                     *)
(***************************************************************************)
\* the completed atomic test calls, of all threads
Returns == UNION {{hist[t][i] : i \in 1 .. Len(hist[t])} : t \in Threads}

\* no call of a thread in T, completed or running, is on position q
UntouchedBy(T, q) ==
    \A u \in T : /\ \A i \in 1 .. Len(hist[u]) : hist[u][i].bp # q
                 /\ arg[u].op # "none" => arg[u].bp # q

\* thread t made exactly the calls test_set_bit_atomic(bp) and then
\* test_clear_bit_atomic(bp), both returned, and no other thread made a call
\* on bp
RoundTrip(t, bp) ==
    /\ Len(hist[t]) = 2
    /\ arg[t].op = "none"
    /\ hist[t][1].op = "test_set" /\ hist[t][1].bp = bp
    /\ hist[t][2].op = "test_clear" /\ hist[t][2].bp = bp
    /\ UntouchedBy(Threads \ {t}, bp)

\* C8 (as claimed): test_set_bit_atomic returns true exactly when the bit was
\* 0 before the call, test_clear_bit_atomic exactly when it was 1.
C8_TrueIffTransition ==
    \A h \in Returns :
        /\ h.op = "test_set" => (h.res <=> h.before = 0)
        /\ h.op = "test_clear" => (h.res <=> h.before = 1)

\* C8 (amended): the result tells whether this call performed the
\* transition: test_set_bit_atomic returns false exactly when its own compare
\* and swap set the bit and true when the bit was already 1;
\* test_clear_bit_atomic returns true exactly when its own compare and swap
\* cleared the bit and false when the bit was already 0.
C8_ResultTellsTransition ==
    \A h \in Returns :
        /\ h.op = "test_set" => (h.res <=> ~h.did)
        /\ h.op = "test_clear" => (h.res <=> h.did)

\* C8 witness: two test_set_bit_atomic calls on one bit, one of which set it
\* and one of which found it set.
C8_Witness ==
    \E g, h \in Returns :
        /\ g.op = "test_set" /\ h.op = "test_set" /\ g.bp = h.bp
        /\ g.did /\ ~g.res
        /\ ~h.did /\ h.res

\* C9: each atomic test call returns the value the bit had just before the
\* step at which the call took effect, and just after that step the bit is 1
\* (test_set_bit_atomic) or 0 (test_clear_bit_atomic).
C9_ReturnsPreviousValue ==
    \A h \in Returns :
        /\ h.res <=> h.before = 1
        /\ h.after = (IF h.op = "test_set" THEN 1 ELSE 0)

\* C9 witness: a test_clear_bit_atomic that returned true and a
\* test_set_bit_atomic that returned false, by two threads, on two bits of
\* the same word.
C9_Witness ==
    \E t, u \in Threads :
        /\ t # u
        /\ \E i \in 1 .. Len(hist[t]), j \in 1 .. Len(hist[u]) :
               /\ hist[t][i].op = "test_clear" /\ hist[t][i].res
               /\ hist[u][j].op = "test_set" /\ ~hist[u][j].res
               /\ hist[t][i].bp # hist[u][j].bp
               /\ index(hist[t][i].bp) = index(hist[u][j].bp)

\* C10 (as claimed): test_set_bit_atomic(bp) and then test_clear_bit_atomic(bp)
\* by one thread, no other thread touching the bit, leaves the bit at its
\* original value, 0 or 1, and the bits no call is made on unchanged.
C10_RoundTripRestores ==
    \A t \in Threads, bp \in TargetBPs :
        RoundTrip(t, bp) =>
            /\ bit(bits, bp) = bit(bits0, bp)
            /\ \A q \in 0 .. (size_in_bits(size) - 1) :
                   UntouchedBy(Threads, q) => bit(bits, q) = bit(bits0, q)

\* C10 (amended): the pair leaves the bit at 0, which is its original value
\* only when it was 0; test_set_bit_atomic returns the original value,
\* test_clear_bit_atomic returns true, and the bits no call is made on are
\* unchanged.
C10_RoundTripClears ==
    \A t \in Threads, bp \in TargetBPs :
        RoundTrip(t, bp) =>
            /\ bit(bits, bp) = 0
            /\ hist[t][1].res <=> bit(bits0, bp) = 1
            /\ hist[t][2].res
            /\ \A q \in 0 .. (size_in_bits(size) - 1) :
                   UntouchedBy(Threads, q) => bit(bits, q) = bit(bits0, q)

\* C10 witness: the pair on a bit that was 1, while another thread completed
\* a call on another bit of the same word.
C10_Witness ==
    \E t \in Threads, bp \in TargetBPs :
        /\ RoundTrip(t, bp)
        /\ bit(bits0, bp) = 1
        /\ \E h \in Returns : h.bp # bp /\ index(h.bp) = index(bp) /\ h.did

(***************************************************************************)
(* Further claims about the cursors and the atomic calls.                  *)
(***************************************************************************)
\* C21: not_found is final.  Once next_set_bit of a cursor returned not_found
\* the cursor is never again inside a skip or a fetch, and every later call
\* on it returns not_found in one step that leaves every word of the vector
\* as it was, also when other threads have set bits of its range since.
C21_NotFoundIsTerminal ==
    [][\A t \in Threads :
          (pc[t] \notin {"off", "new"} /\ arg[t].op \notin {"test_set", "test_clear"}
              /\ hist[t] = <<>> /\ NotFounds(t) >= 1) =>
              /\ pc[t] = "idle" /\ pc'[t] = "idle"
              /\ rmw'[t] = rmw[t]
              /\ out'[t] # out[t] =>
                     /\ out'[t] = Append(out[t], not_found)
                     /\ bits' = bits]_vars

\* C21 witness: a cursor that had returned not_found was called again while
\* a bit of its range was set in the vector, and the bit is still set.
C21_Witness ==
    /\ last.op = "next_set_bit"
    /\ NotFounds(1) >= 2
    /\ out[1][Len(out[1])] = not_found
    /\ SetPositions(last.pre) \cap RangeOf(1) # {}
    /\ SetPositions(last.pre) \cap RangeOf(1) \subseteq SetPositions(bits)

\* what the vector holds after the calls cs, made one after the other on the
\* words b
RECURSIVE InOrder(_, _)
InOrder(b, cs) ==
    IF cs = <<>> THEN b
    ELSE LET c == Head(cs)
         IN  InOrder(IF c.op \in {"set_bit", "test_set"} THEN set_bits(b, c.bp, 1)
                                                         ELSE clear_bits(b, c.bp, 1),
                     Tail(cs))

\* one plain call of thread 1 and one atomic call of thread 2 have been made
\* and have returned, and the atomic call changed its bit
OnePlainOneAtomic ==
    /\ \A t \in Threads : pc[t] = "idle"
    /\ Len(hist[1]) = 1 /\ Len(hist[2]) = 1
    /\ \A t \in Threads \ {1, 2} : hist[t] = <<>>
    /\ hist[2][1].did

\* C22: a plain set_bit or clear_bit beside an atomic call on another bit of
\* the same word can undo the atomic update.  The plain call's own bit is
\* never lost: after each of its returns the bit is what it wrote until the
\* next plain write.  After one plain and one atomic call the vector is what
\* the two calls give one after the other (in either order), or it is what
\* the plain call alone gives, the atomic update having been overwritten;
\* the witness is a run of the second kind.
C22_PlainCallOverwrites ==
    /\ (pc[1] = "idle" /\ hist[1] # <<>>) =>
           (bit(bits, PlainBP) = 1) = (hist[1][Len(hist[1])].op = "set_bit")
    /\ OnePlainOneAtomic =>
           \/ bits = InOrder(bits0, hist[1] \o hist[2])
           \/ bits = InOrder(bits0, hist[1])

\* C22 witness: both calls have returned, the atomic call changed its bit,
\* and the vector is not what the two calls give in either order: the
\* atomic update is gone.
C22_Witness ==
    /\ OnePlainOneAtomic
    /\ index(PlainBP) = index(RacingBP) /\ PlainBP # RacingBP
    /\ bits # InOrder(bits0, hist[1] \o hist[2])
    /\ bits # InOrder(bits0, hist[2] \o hist[1])
    /\ bit(bits, RacingBP) = bit(bits0, RacingBP)

(***************************************************************************)
(* Claims about nodes on their own.                                        *)
(***************************************************************************)
\* the word size_again() reads: the last word of the block that _size gives
SizeAgainWord(m, a) == m[displace(a, node_size(m, a) - sizeof_usword_t)]

\* C23: set_size(s), for s the header size or more and a multiple of the
\* word size, leaves size() = s and size_again() = s and leaves the links of
\* the node as they were; the constructor push and insert build their nodes
\* with leaves the links it was given; and every node that is there, while
\* other nodes are built and resized beside it, has size() = size_again().
C23_SizeTwice ==
    /\ \A b \in last.pre.live :
           /\ node_size(mem, b[1]) = b[2]
           /\ SizeAgainWord(mem, b[1]) = usword(b[2])
    /\ last.op = "set_size" =>
           /\ last.n >= sizeof_FreeListNode /\ last.n % sizeof_usword_t = 0
           /\ node_size(mem, last.bp) = last.n
           /\ SizeAgainWord(mem, last.bp) = usword(last.n)
           /\ <<mem[prev_at(last.bp)], mem[next_at(last.bp)]>> = last.pre.links

\* C23 witness: a node that had links other than null was given the size of
\* its header alone, so that the size is written again right after _size.
C23_Witness ==
    /\ last.op = "set_size"
    /\ last.n = sizeof_FreeListNode
    /\ prev(mem, last.bp) # NULL /\ next(mem, last.bp) # NULL
    /\ Cardinality(last.pre.live) >= 2

\* C24: for a node A at a of size s and a node B at a + s, A.next_block() is
\* the address of B and B.prior_node() is the address of A.
C24_Adjacent ==
    \A A, B \in last.pre.live : A[1] + A[2] = B[1] =>
        /\ next_block(mem, A[1]) = usword(B[1])
        /\ prior_node(mem, B[1]) = usword(A[1])
        /\ (last.op = "next_block" /\ last.bp = A[1]) => last.res = usword(B[1])
        /\ (last.op = "prior_node" /\ last.bp = B[1]) => last.res = usword(A[1])

\* C24 witness: prior_node was called on a node that lies right after a
\* node of medium size.
C24_Witness ==
    /\ last.op = "prior_node"
    /\ last.res = usword(NodeBase)
    /\ <<NodeBase, allocate_quantum_medium>> \in last.pre.live
    /\ last.bp = NodeBase + allocate_quantum_medium

(***************************************************************************)
(* Further claims about the atomic calls and the cursors.                  *)
(***************************************************************************)
\* the completed calls of operation op on position bp that returned res
Answered(op, bp, res) ==
    {c \in AllCalls : /\ hist[c[1]][c[2]].op = op
                      /\ hist[c[1]][c[2]].bp = bp
                      /\ hist[c[1]][c[2]].res = res}

\* a call of operation op on position bp was made, completed or not
Made(op, bp) ==
    \/ Answered(op, bp, TRUE) \cup Answered(op, bp, FALSE) # {}
    \/ \E t \in Threads : arg[t] = [op |-> op, bp |-> bp]

\* C25: of the test_set_bit_atomic calls on a bit that was 0, while no call
\* clears the bit, exactly one returns false and all the others return
\* true; of the test_clear_bit_atomic calls on a bit that was 1, while no
\* call sets the bit, exactly one returns true and all the others false.
\* (At any moment: at most one such call has returned, and one has as soon
\* as any call on the bit has returned.)
C25_SingleWinner ==
    \A bp \in TargetBPs :
        /\ (bit(bits0, bp) = 0 /\ ~Made("test_clear", bp)) =>
               /\ Cardinality(Answered("test_set", bp, FALSE)) <= 1
               /\ Answered("test_set", bp, TRUE) # {} =>
                      Cardinality(Answered("test_set", bp, FALSE)) = 1
        /\ (bit(bits0, bp) = 1 /\ ~Made("test_set", bp)) =>
               /\ Cardinality(Answered("test_clear", bp, TRUE)) <= 1
               /\ Answered("test_clear", bp, FALSE) # {} =>
                      Cardinality(Answered("test_clear", bp, TRUE)) = 1

\* C25 witness: two threads are inside test_set_bit_atomic on the same bit,
\* which was 0, at the same time: both read the word with the bit clear, one
\* set the bit and returned false, the other has failed its compare and
\* swap on the word it had read and is back at the read of the loop.
C25_Witness ==
    \E t, u \in Threads, bp \in TargetBPs :
        /\ t # u
        /\ bit(bits0, bp) = 0 /\ ~Made("test_clear", bp)
        /\ hist[t] = <<[op |-> "test_set", bp |-> bp, res |-> FALSE, did |-> TRUE,
                        before |-> 0, after |-> 1]>>
        /\ hist[u] = <<>>
        /\ arg[u] = [op |-> "test_set", bp |-> bp]
        /\ pc[u] = "or_read"
        /\ rmw[u].old_value # all_zeros
        /\ And(rmw[u].old_value, BitOf(bp)) = all_zeros

\* thread t completes a fetch_clear_bits_atomic in this step
Fetched(t) ==
    /\ pc[t] = "and_cas"
    /\ arg[t].op \in {"ctor", "next_set_bit"}
    /\ pc'[t] = "idle"

\* the first position fetch_clear_bits_atomic(bp, max) leaves alone: the
\* next word boundary after bp, or max when that is nearer
FetchEnd(bp, max) == min(cursor_bp(bp_cursor(bp) + 1), max)

\* C26: a fetch_clear_bits_atomic(bp, max) clears the positions from bp to
\* the next word boundary or to max, whichever is nearer, all in one word
\* and inside the range of the cursor, and changes no other bit; no other
\* step of a cursor, in its construction or in next_set_bit, changes the
\* vector; so, the cursor being alone, the bits outside its range are as
\* they were at the start.
C26_CursorFrame ==
    [][/\ \A t \in Threads : Fetched(t) =>
              LET bp == arg[t].bp
                  end == FetchEnd(bp, cur[t].max_index)
              IN  /\ bp < end
                  /\ bits' = clear_bits(bits, bp, end - bp)
                  /\ index(bp) = index(end - 1)
                  /\ cur[t].offset <= bp /\ end <= cur[t].max_index
                  /\ SetPositions(bits) \ SetPositions(bits') \subseteq RangeOf(t)
                  /\ (\A u \in Threads \ {t} : pc[u] = "off") =>
                         SetPositions(bits') \ RangeOf(t) = SetPositions(bits0) \ RangeOf(t)
       /\ (\A t \in Threads : ~Fetched(t)) => bits' = bits]_vars

\* C26 witness: a cursor that starts and ends inside words, with bits set in
\* its first word before its start and in its last word after its end, has
\* run to not_found, and those bits are still set.
C26_Witness ==
    /\ Done(1)
    /\ shift(cur[1].offset) # 0 /\ shift(cur[1].max_index) # 0
    /\ \E p, q \in SetPositions(bits) :
           /\ p < cur[1].offset /\ index(p) = index(cur[1].offset)
           /\ q >= cur[1].max_index /\ index(q) = index(cur[1].max_index - 1)
    /\ Yields(1) # {}

\* the positions the cursor of thread t holds in its cache: _index + i for
\* every set bit i of _copied_bits
Cached(t) == {cur[t].index + i : i \in cur[t].copied_bits}

\* C27: every position a cursor holds as a set bit of its cache is 0 in the
\* vector, lies in the range of the cursor, and is in the cache of no other
\* cursor, in every state of any number of cursors running at once.
C27_CacheIsTaken ==
    \A t \in Threads :
        /\ Cached(t) \cap SetPositions(bits) = {}
        /\ Cached(t) \subseteq RangeOf(t)
        /\ \A u \in Threads \ {t} : Cached(t) \cap Cached(u) = {}

\* C27 witness: a cursor holds in its cache a position that is also in the
\* range of another cursor, and that cursor has fetched the same word since
\* and holds nothing.
C27_Witness ==
    \E t, u \in Threads :
        /\ t # u
        /\ Cached(t) # {}
        /\ Cached(t) \subseteq RangeOf(u)
        /\ pc[u] = "idle" /\ Cached(u) = {} /\ out[u] = <<>>
        /\ pc[t] = "idle" /\ out[t] = <<>>

\* C28: whenever next_set_bit takes the refill path (the cache is zero and
\* _index < _max_index), _index is a multiple of bits_per_word: the
\* assertion there holds for every start, every length, every sequence of
\* calls and every interleaving with other cursors.
C28_RefillIsAligned ==
    \A t \in Threads :
        pc[t] = "skip" =>
            /\ cur[t].copied_bits = all_zeros
            /\ cur[t].index < cur[t].max_index
            /\ cur[t].index % bits_per_word = 0

\* C28 witness: a cursor whose start is not a multiple of bits_per_word and
\* whose end is not one either is on the refill path for its last word,
\* after it returned a position.
C28_Witness ==
    \E t \in Threads :
        /\ pc[t] = "skip"
        /\ cur[t].offset % bits_per_word # 0
        /\ cur[t].max_index % bits_per_word # 0
        /\ index(cur[t].index) = index(cur[t].max_index)
        /\ Yields(t) # {}

\* C29: two cursors over [a, b) and [b, c), b inside a word, run by two
\* threads.  At every moment the bits of its range that are gone from the
\* vector are those a cursor has returned or holds in its cache, so neither
\* clears or returns a bit of the range of the other; a cursor returns no
\* position twice; and when both have returned not_found each has returned
\* (less its own start) every position that was set in its own range.
C29_SideBySide ==
    \A t \in {1, 2} : pc[t] # "new" =>
        LET was == SetPositions(bits0) \cap RangeOf(t)
            got == {Unbiased(t, i) : i \in Yields(t)}
        IN  /\ was \ SetPositions(bits) = got \cup Cached(t)
            /\ Cardinality(got) = Cardinality(Yields(t))
            /\ \A i \in Yields(t) : out[t][i] = Unbiased(t, i) - cur[t].offset
            /\ (Done(1) /\ Done(2)) => got = was

\* C29 witness: both cursors have returned not_found; the bits on the two
\* sides of the cut, in one word, were both set, and each cursor returned the
\* one on its side, the second cursor as its position 0.
C29_Witness ==
    /\ Done(1) /\ Done(2)
    /\ {SharedCut - 1, SharedCut} \subseteq SetPositions(bits0)
    /\ index(SharedCut - 1) = index(SharedCut)
    /\ \E i \in Yields(1) : Unbiased(1, i) = SharedCut - 1
    /\ out[2][1] = 0
    /\ Cardinality(Yields(1)) >= 2

(***************************************************************************)
(* A further claim about the free list.                                    *)
(***************************************************************************)
\* C30: append(node) of a node that is not on the list, also one that pop
\* returned or remove unlinked and whose links are as they were left, makes
\* the node the tail with a null next link, and the walk from head by next
\* ends at the node without meeting any node twice.
C30_AppendEndsChain ==
    last.op = "append" =>
        /\ tail = last.bp
        /\ next(mem, last.bp) = NULL
        /\ LET sq == ListSeq(TheList)
           IN  /\ Len(sq) <= NumBlocks
               /\ \A i, j \in 1 .. Len(sq) : sq[i] = sq[j] => i = j
               /\ sq[Len(sq)] = last.bp

\* the elements of the sequence sq
Elements(sq) == {sq[i] : i \in 1 .. Len(sq)}

\* C31: from the empty list, after any sequence of insert, pop and remove of
\* listed nodes, the walk from head is in strictly increasing address order
\* and visits exactly the inserted blocks not popped or removed since: each
\* insert adds its block to those listed before it, each pop takes the
\* lowest away and each remove its node, and nothing else.
C31_RemovalKeepsOrder ==
    LET sq == ListSeq(TheList)
        before == Elements(last.pre.order)
    IN  /\ Len(sq) <= NumBlocks
        /\ \A i \in 1 .. (Len(sq) - 1) : sq[i] < sq[i + 1]
        /\ last.op = "none" => sq = <<>>
        /\ last.op = "insert" => Elements(sq) = before \cup {last.bp}
        /\ last.op = "pop" =>
               /\ Elements(sq) = before \ {last.res}
               /\ before # {} => last.res = SetMin(before)
        /\ last.op = "remove" => Elements(sq) = before \ {last.bp}
        /\ (sq = <<>>) = (head = NULL) /\ (head = NULL) = (tail = NULL)
        /\ sq # <<>> => tail = sq[Len(sq)]

\* C31 witness: a block was inserted below a listed one while a third
\* block, taken off the list before, still holds its old node.
C31_Witness ==
    /\ last.op = "insert"
    /\ Len(ListSeq(TheList)) >= 2
    /\ last.bp = ListSeq(TheList)[1]
    /\ Constructed \ OnList(TheList) # {}

(***************************************************************************)
(* A further claim about the plain calls.                                  *)
(***************************************************************************)
\* C32: bits_are_clear(bp, n), for n >= 1 and bp + n no more than the size,
\* returns true exactly when no position of [bp, bp + n) is set, whatever is
\* set before bp and from bp + n on, for runs inside one word and for runs
\* over several words, and it leaves the vector as it was.
C32_BitsAreClearExact ==
    last.op = "bits_are_clear" =>
        /\ last.n >= 1 /\ last.bp + last.n <= size_in_bits(size)
        /\ last.res = (SetPositions(last.pre) \cap (last.bp .. (last.bp + last.n - 1)) = {})
        /\ bits = last.pre

\* C32 witness: the call answered true for a run that starts inside a word,
\* covers a whole word and ends inside a third, with a bit set in the first
\* or the last word of the run outside it.
C32_Witness ==
    /\ last.op = "bits_are_clear"
    /\ last.res
    /\ shift(last.bp) # 0 /\ shift(last.bp + last.n) # 0
    /\ index(last.bp + last.n) >= index(last.bp) + 2
    /\ \E p \in SetPositions(bits) :
           \/ index(p) = index(last.bp)
           \/ index(p) = index(last.bp + last.n)

(***************************************************************************)
(* A further claim about the cursors.                                      *)
(***************************************************************************)
\* the positions the cursor of thread t has taken from the vector: those it
\* holds in its cache and those it has returned
Owned(t) == Cached(t) \cup {Unbiased(t, i) : i \in Yields(t)}

\* thread t completes the construction of its cursor in this step
Built(t) == Fetched(t) /\ arg[t].op = "ctor"

\* C33: the step that ends the construction of an AtomicCursor over
\* [start, start + length), before any next_set_bit, leaves every position
\* of [start, min(next word boundary after start, start + length)) at 0 in
\* the vector and every other bit as it was, and the bits that were set
\* there are then in the cache of the cursor; the other steps of the
\* construction change no bit; what a cursor has taken stays its own, in its
\* cache or among the positions it returned, and no position is ever taken
\* by two cursors, so those bits are returned by that cursor only.
C33_ConstructionClaims ==
    /\ [][\A t \in Threads :
              /\ Built(t) =>
                     LET start == cur[t].offset
                         end == FetchEnd(start, cur[t].max_index)
                     IN  /\ arg[t].bp = start /\ start < end
                         /\ bits' = clear_bits(bits, start, end - start)
                         /\ SetPositions(bits') \cap (start .. (end - 1)) = {}
                         /\ SetPositions(bits') \ (start .. (end - 1)) =
                                SetPositions(bits) \ (start .. (end - 1))
                         /\ Cached(t)' = SetPositions(bits) \cap (start .. (end - 1))
                         /\ out'[t] = <<>>
              /\ (pc[t] = "new" \/ arg[t].op = "ctor") /\ pc'[t] # pc[t] /\ ~Built(t)
                     => bits' = bits
              /\ Owned(t) \subseteq Owned(t)']_vars
    /\ [](\A t, u \in Threads : t # u => Owned(t) \cap Owned(u) = {})

\* C33 witness: a cursor over [66, 76) was just constructed and no
\* next_set_bit was called on it; position 70 was set and is in its cache,
\* position 80, in the same word past its end, is still set, while a cursor
\* over the whole vector has returned a position and is about to fetch that
\* word.
C33_Witness ==
    \E t, u \in Threads :
        /\ t # u
        /\ pc[t] = "idle" /\ out[t] = <<>>
        /\ cur[t].offset = 66 /\ cur[t].max_index = 76
        /\ Cached(t) = {70}
        /\ 80 \in SetPositions(bits) /\ 70 \notin SetPositions(bits)
        /\ cur[u].offset = 0 /\ Yields(u) # {}
        /\ pc[u] = "and_cas" /\ rmw[u].addr = index(70)

====
